---- MODULE Spec2Model ----
(***************************************************************************)
(* Template metadata enrichment engine of pay_app_setup.py: the header     *)
(* normaliser, the schema indices, the entity-type matcher, the property   *)
(* resolver, the picklist classifier and the six-row template builder.     *)
(*                                                                         *)
(* Python str values are TLA+ strings; Len, SubSeq and \o act on them      *)
(* character by character.  An optional value (x | None) is <<>> for None  *)
(* and <<x>> for a value.                                                   *)
(***************************************************************************)
EXTENDS Integers, Sequences, FiniteSets, TLC

VARIABLES
    col, key, rekey, variant, variant_key,        \* normaliser calls
    norm_key, friendly_type_val, is_picklist,     \* classifier calls
    xml_file, global_lookup, entity_lookup,       \* schema dictionary and its indices
    property_names, data_rows,                    \* the template
    extract_column,                               \* _extract_picklist_values call
    country, skip_operation, resolved_picklists,  \* configuration and overrides
    best_name,                                    \* find_best_entity_type result
    column_name, entity_props, meta,              \* lookup_property call
    result,                                       \* transform_template result
    ref_files, ref_idx, sheet_idx, tables, mapping, \* reference files and the parse of one
    picklist_tables, col_to_picklist,             \* merged picklist tables and mappings
    templates, loaded_config, editor_rows, results, \* a batch run of main
    pc                                            \* which calls have been made

normVars  == <<col, key, rekey, variant, variant_key>>
classVars == <<norm_key, friendly_type_val, is_picklist>>
xmlVars   == <<xml_file, global_lookup, entity_lookup>>
tmplVars  == <<property_names, data_rows, extract_column>>
cfgVars   == <<country, skip_operation, resolved_picklists>>
matchVars == <<best_name>>
lookVars  == <<column_name, entity_props, meta>>
refVars   == <<ref_files, ref_idx, sheet_idx, tables, mapping, picklist_tables,
               col_to_picklist>>
runVars   == <<templates, loaded_config, editor_rows, results>>
vars == <<normVars, classVars, xmlVars, tmplVars, cfgVars, matchVars, lookVars, refVars,
          runVars, result, pc>>

None == <<>>
Some(x) == <<x>>

(***************************************************************************)
(* Python str operations                                                   *)
(***************************************************************************)
CharAt(s, i) == SubSeq(s, i, i)

\* kw in s
Contains(s, kw) ==
    \E i \in 1..(Len(s) - Len(kw) + 1) : SubSeq(s, i, i + Len(kw) - 1) = kw

\* s.endswith(suffix)
EndsWith(s, suffix) ==
    /\ Len(suffix) <= Len(s)
    /\ SubSeq(s, Len(s) - Len(suffix) + 1, Len(s)) = suffix

\* s.startswith(prefix)
StartsWith(s, prefix) ==
    /\ Len(prefix) <= Len(s)
    /\ SubSeq(s, 1, Len(prefix)) = prefix

UpperCase == "ABCDEFGHIJKLMNOPQRSTUVWXYZ"
LowerCase == "abcdefghijklmnopqrstuvwxyz"

\* the lower-case letter of each upper-case letter, and the reverse
ToLower == [c \in {CharAt(UpperCase, i) : i \in 1..26} |->
              CharAt(LowerCase, CHOOSE i \in 1..26 : CharAt(UpperCase, i) = c)]
ToUpper == [c \in {CharAt(LowerCase, i) : i \in 1..26} |->
              CharAt(UpperCase, CHOOSE i \in 1..26 : CharAt(LowerCase, i) = c)]

LowerChar(c) == IF c \in DOMAIN ToLower THEN ToLower[c] ELSE c

UpperChar(c) == IF c \in DOMAIN ToUpper THEN ToUpper[c] ELSE c

\* s.lower()
RECURSIVE Lower(_)
Lower(s) ==
    IF s = "" THEN "" ELSE LowerChar(CharAt(s, 1)) \o Lower(SubSeq(s, 2, Len(s)))

\* s.replace(old, new) for a one-character old
RECURSIVE Replace(_, _, _)
Replace(s, old, new) ==
    IF s = "" THEN ""
    ELSE (IF CharAt(s, 1) = old THEN new ELSE CharAt(s, 1))
             \o Replace(SubSeq(s, 2, Len(s)), old, new)

SetMax(S) == CHOOSE m \in S : \A x \in S : x <= m
SetMin(S) == CHOOSE m \in S : \A x \in S : m <= x

\* s.rsplit(sep, 1)[-1] for a one-character sep
RSplitLast(s, sep) ==
    LET at == {i \in 1..Len(s) : CharAt(s, i) = sep}
    IN  IF at = {} THEN s ELSE SubSeq(s, SetMax(at) + 1, Len(s))

\* s.split(sep, 1)[-1] for a one-character sep
SplitLast(s, sep) ==
    LET at == {i \in 1..Len(s) : CharAt(s, i) = sep}
    IN  IF at = {} THEN s ELSE SubSeq(s, SetMin(at) + 1, Len(s))

Whitespace == {" ", "\t", "\n", "\r"}

\* s.strip()
Strip(s) ==
    LET solid == {i \in 1..Len(s) : CharAt(s, i) \notin Whitespace}
    IN  IF solid = {} THEN "" ELSE SubSeq(s, SetMin(solid), SetMax(solid))

(***************************************************************************)
(* Normaliser                                                              *)
(***************************************************************************)
\* a normaliser that cuts at the first dot instead of the last
NormaliseAtFirstDot(c) ==
    LET c1 == IF Contains(c, ".") THEN SplitLast(c, ".") ELSE c
    IN  Lower(Replace(Replace(Replace(c1, "-", ""), "_", ""), " ", ""))

\* a normaliser that keeps spaces
NormaliseKeepingSpaces(c) ==
    LET c1 == IF Contains(c, ".") THEN RSplitLast(c, ".") ELSE c
    IN  Lower(Replace(Replace(c1, "-", ""), "_", ""))

_normalise_property_name(c) ==
    LET c1 == IF Contains(c, ".") THEN RSplitLast(c, ".") ELSE c
    IN  Lower(Replace(Replace(Replace(c1, "-", ""), "_", ""), " ", ""))

(***************************************************************************)
(* Specification of the normaliser: a header is typed in, normalised, the  *)
(* key normalised again; a variant spelling of the header is normalised.   *)
(***************************************************************************)
MaxLen == 3
Alphabet == {"a", "B", ".", "-", " "}
Separators == {"-", "_", " "}
PathPrefixes == {"", "nav", "a.B", "x-y"}

idleClass == /\ norm_key = "" /\ friendly_type_val = "" /\ is_picklist = None
idleXml   == /\ xml_file = <<>> /\ global_lookup = <<>> /\ entity_lookup = <<>>
idleTmpl  == /\ property_names = <<>> /\ data_rows = <<>> /\ extract_column = 0
idleCfg   == /\ country = "" /\ skip_operation = FALSE /\ resolved_picklists = None
idleMatch == best_name = None
idleLook  == /\ column_name = "" /\ entity_props = None /\ meta = None
idleRef   == /\ ref_files = <<>> /\ ref_idx = 0 /\ sheet_idx = 0
             /\ tables = <<>> /\ mapping = <<>>
             /\ picklist_tables = <<>> /\ col_to_picklist = <<>>
idleRun   == /\ templates = <<>> /\ loaded_config = <<>>
             /\ editor_rows = <<>> /\ results = <<>>
idleNorm  == /\ col = "" /\ key = None /\ rekey = None
             /\ variant = None /\ variant_key = None

InitNorm ==
    /\ idleRef /\ idleRun /\ idleNorm /\ idleClass /\ idleXml /\ idleTmpl /\ idleCfg /\ idleMatch /\ idleLook
    /\ result = None /\ pc = "idle"

notNorm == <<classVars, xmlVars, tmplVars, cfgVars, matchVars, lookVars, refVars, runVars, result, pc>>

TypeChar(c) ==
    /\ Len(col) < MaxLen
    /\ col' = col \o c
    /\ key' = None /\ rekey' = None /\ variant' = None /\ variant_key' = None
    /\ UNCHANGED notNorm

Normalise ==
    /\ key = None
    /\ key' = Some(_normalise_property_name(col))
    /\ UNCHANGED <<col, rekey, variant, variant_key, notNorm>>

NormaliseKey ==
    /\ key # None /\ rekey = None
    /\ rekey' = Some(_normalise_property_name(key[1]))
    /\ UNCHANGED <<col, key, variant, variant_key, notNorm>>

\* the header with the case of character i switched
ChangeCase(i) ==
    /\ variant = None
    /\ LET c == CharAt(col, i)
           d == IF LowerChar(c) # c THEN LowerChar(c) ELSE UpperChar(c)
       IN  /\ d # c
           /\ variant' = Some(SubSeq(col, 1, i - 1) \o d \o SubSeq(col, i + 1, Len(col)))
    /\ UNCHANGED <<col, key, rekey, variant_key, notNorm>>

\* the header with a hyphen, underscore or space put in after position i
InsertSeparator(i, sep) ==
    /\ variant = None
    /\ variant' = Some(SubSeq(col, 1, i) \o sep \o SubSeq(col, i + 1, Len(col)))
    /\ UNCHANGED <<col, key, rekey, variant_key, notNorm>>

\* the header with the separator at position i taken out
DeleteSeparator(i) ==
    /\ variant = None
    /\ CharAt(col, i) \in Separators
    /\ variant' = Some(SubSeq(col, 1, i - 1) \o SubSeq(col, i + 1, Len(col)))
    /\ UNCHANGED <<col, key, rekey, variant_key, notNorm>>

\* the header behind a (longer) dotted navigation path
PrependPath(p) ==
    /\ variant = None
    /\ variant' = Some(p \o "." \o col)
    /\ UNCHANGED <<col, key, rekey, variant_key, notNorm>>

NormaliseVariant ==
    /\ variant # None /\ variant_key = None
    /\ variant_key' = Some(_normalise_property_name(variant[1]))
    /\ UNCHANGED <<col, key, rekey, variant, notNorm>>

NextNorm ==
    \/ \E c \in Alphabet : TypeChar(c)
    \/ Normalise
    \/ NormaliseKey
    \/ \E i \in 1..Len(col) : ChangeCase(i)
    \/ \E i \in 0..Len(col), sep \in Separators : InsertSeparator(i, sep)
    \/ \E i \in 1..Len(col) : DeleteSeparator(i)
    \/ \E p \in PathPrefixes : PrependPath(p)
    \/ NormaliseVariant

SpecNorm == InitNorm /\ [][NextNorm]_vars

\* C7: normalising a key again gives the same key.
NormaliseIdempotent == rekey # None => rekey = key

NormaliseIdempotentWitness ==
    /\ rekey # None
    /\ Cardinality({i \in 1..Len(col) : CharAt(col, i) = "."}) >= 2
    /\ key[1] # "" /\ key[1] # col

\* The key read off the header directly: the characters after the last dot
\* that are not separators, in order, each in lower case.
KeptPositions(h) ==
    LET dots == {i \in 1..Len(h) : CharAt(h, i) = "."}
        from == IF dots = {} THEN 1 ELSE SetMax(dots) + 1
    IN  {i \in from..Len(h) : CharAt(h, i) \notin Separators}

ExpectedKeyMatches(h, k) ==
    LET kept == KeptPositions(h)
    IN  /\ Len(k) = Cardinality(kept)
        /\ \A i \in kept :
              CharAt(k, Cardinality({j \in kept : j <= i})) = LowerChar(CharAt(h, i))

\* C8: spellings that differ in case, separators or the dotted path give the
\* same key; the key is the lower-cased, separator-free text after the last dot.
NormaliseInsensitive ==
    /\ (key # None /\ variant_key # None) => variant_key = key
    /\ key # None => ExpectedKeyMatches(col, key[1])
    /\ variant_key # None => ExpectedKeyMatches(variant[1], variant_key[1])
    /\ (key # None /\ col = "") => key = Some("")

NormaliseInsensitiveWitness ==
    /\ key # None /\ variant_key # None
    /\ key[1] # ""
    /\ variant[1] # col
    /\ Contains(variant[1], " ")
    /\ Contains(col, ".")

(***************************************************************************)
(* Friendly types and the picklist classifier                              *)
(***************************************************************************)
TYPE_MAP ==
    [t \in {"Edm.String", "Edm.Decimal", "Edm.DateTime", "Edm.DateTimeOffset",
            "Edm.Int64", "Edm.Int32", "Edm.Int16", "Edm.Byte", "Edm.Boolean",
            "Edm.Double", "Edm.Single", "Edm.Binary", "Edm.Time"} |->
        CASE t = "Edm.String" -> "string"
          [] t \in {"Edm.Decimal", "Edm.Double", "Edm.Single"} -> "float"
          [] t \in {"Edm.DateTime", "Edm.DateTimeOffset"} -> "date"
          [] t \in {"Edm.Int64", "Edm.Int32", "Edm.Int16", "Edm.Byte"} -> "integer"
          [] t = "Edm.Boolean" -> "boolean"
          [] t = "Edm.Binary" -> "binary"
          [] t = "Edm.Time" -> "time"]

friendly_type(edm_type) ==
    IF edm_type \in DOMAIN TYPE_MAP THEN TYPE_MAP[edm_type]
    ELSE IF StartsWith(edm_type, "SFOData.") THEN "picklist"
    ELSE edm_type

_DURATION_KEYWORDS ==
    {"duration", "period", "lengthofservice", "tenure", "probation",
     "probationperiod", "noticperiod", "noticeperiod", "servicedate"}

_PICKLIST_SUBSTRINGS ==
    {"gender", "salutation", "marital", "legalentity",
     "employmenttype", "employeeclass", "employeetype", "contingent",
     "timezone", "country", "nationality", "addresstype", "isprimary",
     "currency", "frequency", "paygroup", "holidaycalendar",
     "eventreason", "eventtype", "contracttype",
     "costcenter", "division", "department", "businessunit",
     "location", "jobcode", "jobtitle", "jobfamily", "joblevel",
     "timetype", "workschedule", "payscale",
     "locale", "status"}

_NON_PICKLIST_SUBSTRINGS ==
    {"firstname", "lastname", "middlename", "preferredname",
     "formalname", "suffixname",
     "address1", "address2", "address3", "addressline", "street",
     "city", "postcode", "postalcode", "zipcode",
     "emailaddress", "phone", "fax",
     "nationalid", "nino", "passport",
     "sequencenumber", "description", "comments", "remark"}

_is_duration_column(k) == \E kw \in _DURATION_KEYWORDS : Contains(k, kw)

\* a classifier that looks for the likely-enumerated keywords first
IsPicklistLikelyFirst(k, t) ==
    IF t = "picklist" THEN TRUE
    ELSE IF t \in {"date", "time", "float", "integer", "boolean"} THEN FALSE
    ELSE IF t = "string"
         THEN IF \E kw \in _PICKLIST_SUBSTRINGS : Contains(k, kw) THEN TRUE
              ELSE FALSE
    ELSE FALSE

_is_picklist_column(k, t) ==
    IF t = "picklist" THEN TRUE
    ELSE IF t \in {"date", "time", "float", "integer", "boolean"} THEN FALSE
    ELSE IF t = "string"
         THEN IF \E kw \in _NON_PICKLIST_SUBSTRINGS : Contains(k, kw) THEN FALSE
              ELSE \E kw \in _PICKLIST_SUBSTRINGS : Contains(k, kw)
    ELSE FALSE

(***************************************************************************)
(* Specification of the classifier: a key is put together from name parts, *)
(* a raw type tag is resolved to its friendly type, the column classified. *)
(***************************************************************************)
MaxKeyParts == 2
KeyParts == {"status", "city", "job", "code"}
RawTypes == DOMAIN TYPE_MAP \cup {"SFOData.GenderEnum", "SFOData.", "", "Edm.Guid", "string"}

RECURSIVE KeysOf(_)
KeysOf(n) ==
    IF n = 0 THEN {""}
    ELSE KeysOf(n - 1) \cup {k \o p : k \in KeysOf(n - 1), p \in KeyParts}

InitClass ==
    /\ idleRef /\ idleRun /\ idleNorm /\ idleClass /\ idleXml /\ idleTmpl /\ idleCfg /\ idleMatch /\ idleLook
    /\ result = None /\ pc = "idle"

notClass == <<normVars, xmlVars, tmplVars, cfgVars, matchVars, lookVars, refVars, runVars, result, pc>>

ChooseKey(k) ==
    /\ norm_key' = k
    /\ is_picklist' = None
    /\ UNCHANGED <<friendly_type_val, notClass>>

ResolveType(edm_type) ==
    /\ friendly_type_val' = friendly_type(edm_type)
    /\ is_picklist' = None
    /\ UNCHANGED <<norm_key, notClass>>

Classify ==
    /\ is_picklist = None
    /\ is_picklist' = Some(_is_picklist_column(norm_key, friendly_type_val))
    /\ UNCHANGED <<norm_key, friendly_type_val, notClass>>

NextClass ==
    \/ \E k \in KeysOf(MaxKeyParts) : ChooseKey(k)
    \/ \E t \in RawTypes : ResolveType(t)
    \/ Classify

SpecClass == InitClass /\ [][NextClass]_vars

NeverEnumerated(k) ==
    \E kw \in _NON_PICKLIST_SUBSTRINGS :
        \E i \in 1..Len(k) : \E j \in i..Len(k) : SubSeq(k, i, j) = kw

LikelyEnumerated(k) ==
    \E kw \in _PICKLIST_SUBSTRINGS :
        \E i \in 1..Len(k) : \E j \in i..Len(k) : SubSeq(k, i, j) = kw

\* C9: the classifier follows the ordered rule table: picklist is always
\* accepted; date, time, float, integer, boolean never; a string key with a
\* never-enumerated substring is rejected even when it also has a
\* likely-enumerated one, else accepted exactly when it has a
\* likely-enumerated one; every other or empty type is rejected.
ClassifierRuleTable ==
    is_picklist # None =>
        LET t == friendly_type_val
            k == norm_key
            r == is_picklist[1]
        IN  /\ t = "picklist" => r
            /\ t \in {"date", "time", "float", "integer", "boolean"} => ~r
            /\ (t = "string" /\ NeverEnumerated(k)) => ~r
            /\ (t = "string" /\ ~NeverEnumerated(k)) => (r <=> LikelyEnumerated(k))
            /\ t \notin {"picklist", "string"} => ~r

ClassifierRuleTableWitness ==
    /\ is_picklist = Some(FALSE)
    /\ friendly_type_val = "string"
    /\ NeverEnumerated(norm_key) /\ LikelyEnumerated(norm_key)

(***************************************************************************)
(* Schema index builder.  The dictionary is the sequence of its EntityType *)
(* elements in document order, each with its Property elements in order.   *)
(* A dict is a function on its keys; entity_lookup, whose iteration order  *)
(* matters, is the sequence of its (name, props) items in insertion order. *)
(***************************************************************************)
EmptyDict == <<>>

\* d[k] = v
DictSet(d, k, v) == [x \in DOMAIN d \cup {k} |-> IF x = k THEN v ELSE d[x]]

\* d.setdefault(k, []) without the insertion
DictGetList(d, k) == IF k \in DOMAIN d THEN d[k] ELSE <<>>

\* d[name] = props on an insertion-ordered dict
ItemSet(items, name, props) ==
    IF \E i \in 1..Len(items) : items[i].name = name
    THEN [i \in 1..Len(items) |->
            IF items[i].name = name THEN [name |-> name, props |-> props] ELSE items[i]]
    ELSE Append(items, [name |-> name, props |-> props])

\* d.get(name)
ItemGet(items, name) ==
    IF \E i \in 1..Len(items) : items[i].name = name
    THEN Some(items[CHOOSE i \in 1..Len(items) : items[i].name = name].props)
    ELSE None

PropertyEntry(et_name, attr) ==
    [entity_type |-> et_name, name |-> attr.Name, type |-> attr.Type,
     required |-> attr.required, max_length |-> attr.MaxLength, label |-> attr.label]

\* one Property element: the entry goes to the end of the global list of its
\* key and replaces the entity type's own entry for the key
AddProperty(st, k, entry) ==
    [global_lookup |-> DictSet(st.global_lookup, k,
                               Append(DictGetList(st.global_lookup, k), entry)),
     et_props |-> DictSet(st.et_props, k, entry)]

\* the loop over one entity type's properties, from property i on
RECURSIVE ParseProperties(_, _, _, _)
ParseProperties(et_name, props, i, st) ==
    IF i > Len(props) THEN st
    ELSE ParseProperties(et_name, props, i + 1,
             AddProperty(st, _normalise_property_name(props[i].Name),
                         PropertyEntry(et_name, props[i])))

\* one EntityType element, its properties parsed into r
AddEntityType(ents, et_name, r) ==
    [global_lookup |-> r.global_lookup,
     entity_lookup |-> ItemSet(ents, et_name, r.et_props)]

\* the loop over the entity types, from entity type i on
RECURSIVE ParseEntityTypes(_, _, _)
ParseEntityTypes(root, i, st) ==
    IF i > Len(root) THEN st
    ELSE ParseEntityTypes(root, i + 1,
             AddEntityType(st.entity_lookup, root[i].Name,
                 ParseProperties(root[i].Name, root[i].Property, 1,
                     [global_lookup |-> st.global_lookup, et_props |-> EmptyDict])))

parse_xml_metadata(root) ==
    ParseEntityTypes(root, 1, [global_lookup |-> EmptyDict, entity_lookup |-> <<>>])

(***************************************************************************)
(* Entity-type matcher                                                     *)
(***************************************************************************)
_METADATA_ENTITY_SUFFIXES == {"Permissions", "Permission", "FieldControls"}

COUNTRY_CODES ==
    {"GBR", "USA", "DEU", "FRA", "AUS", "CAN", "JPN", "NLD", "ESP", "ITA",
     "BRA", "MEX", "IND", "SGP", "ZAF", "NZL", "ARE", "KWT", "PER", "SAU",
     "CHN", "HKG", "KOR", "MYS", "THA", "PHL", "IDN", "COL", "CHL", "ARG",
     "POL", "CZE", "TUN", "EGY", "ISR", "RUS", "SVK", "SVN"}

\* A score is (match_count, ratio, country_bonus); the ratio, a float in the
\* code, is kept as the exact fraction num/den with den > 0.
Score(mc, num, den, bonus) == [match_count |-> mc, num |-> num, den |-> den, bonus |-> bonus]

\* the comparison a >= b, which lets a later entity type take a tie
ScoreGreaterOrEqual(a, b) ==
    \/ a.match_count > b.match_count
    \/ /\ a.match_count = b.match_count
       /\ \/ a.num * b.den > b.num * a.den
          \/ /\ a.num * b.den = b.num * a.den
             /\ a.bonus >= b.bonus

\* tuple comparison a > b
ScoreGreater(a, b) ==
    \/ a.match_count > b.match_count
    \/ /\ a.match_count = b.match_count
       /\ \/ a.num * b.den > b.num * a.den
          \/ /\ a.num * b.den = b.num * a.den
             /\ a.bonus > b.bonus

NormCols(names) == {_normalise_property_name(names[i]) : i \in 1..Len(names)}

\* a score that does not penalise the mirror entity types
EntityScoreUnpenalised(norm_cols, et_name, et_props, ctry) ==
    LET raw == Cardinality(norm_cols \cap DOMAIN et_props)
        other_countries == IF ctry # "" THEN COUNTRY_CODES \ {ctry} ELSE {}
        country_bonus ==
            IF ctry # "" /\ EndsWith(et_name, ctry) THEN 1
            ELSE IF \E oc \in other_countries : EndsWith(et_name, oc) THEN 0 - 1
            ELSE 0
        n == Cardinality(DOMAIN et_props)
    IN  Score(raw, raw, IF n > 1 THEN n ELSE 1, country_bonus)

\* a score that does not penalise the entity types of another country
EntityScoreNoCountryPenalty(norm_cols, et_name, et_props, ctry) ==
    LET raw == Cardinality(norm_cols \cap DOMAIN et_props)
        mc == IF \E suf \in _METADATA_ENTITY_SUFFIXES : EndsWith(et_name, suf)
              THEN raw \div 2 ELSE raw
        country_bonus == IF ctry # "" /\ EndsWith(et_name, ctry) THEN 1 ELSE 0
        n == Cardinality(DOMAIN et_props)
    IN  Score(mc, mc, IF n > 1 THEN n ELSE 1, country_bonus)

\* the score the loop body computes for one entity type
EntityScore(norm_cols, et_name, et_props, ctry) ==
    LET raw == Cardinality(norm_cols \cap DOMAIN et_props)
        other_countries == IF ctry # "" THEN COUNTRY_CODES \ {ctry} ELSE {}
        mc == IF \E suf \in _METADATA_ENTITY_SUFFIXES : EndsWith(et_name, suf)
              THEN raw \div 2 ELSE raw
        country_bonus ==
            IF ctry # "" /\ EndsWith(et_name, ctry) THEN 1
            ELSE IF \E oc \in other_countries : EndsWith(et_name, oc) THEN 0 - 1
            ELSE 0
        n == Cardinality(DOMAIN et_props)
    IN  Score(mc, mc, IF n > 1 THEN n ELSE 1, country_bonus)

\* the loop over entity_lookup.items(), from item i on
RECURSIVE BestFrom(_, _, _, _, _, _)
BestFrom(norm_cols, items, ctry, i, name, score) ==
    IF i > Len(items) THEN [best_name |-> name, best_score |-> score]
    ELSE LET et == items[i]
             sc == EntityScore(norm_cols, et.name, et.props, ctry)
         IN  IF Cardinality(norm_cols \cap DOMAIN et.props) = 0
             THEN BestFrom(norm_cols, items, ctry, i + 1, name, score)
             ELSE IF ScoreGreater(sc, score)
             THEN BestFrom(norm_cols, items, ctry, i + 1, Some(et.name), sc)
             ELSE BestFrom(norm_cols, items, ctry, i + 1, name, score)

\* return best_name if best_score[0] > 0 else None
BestOrNone(b) == IF b.best_score.match_count > 0 THEN b.best_name ELSE None

find_best_entity_type(names, items, ctry) ==
    BestOrNone(BestFrom(NormCols(names), items, ctry, 1, None, Score(0, 0, 1, 0)))

(***************************************************************************)
(* Property resolver                                                       *)
(***************************************************************************)
\* a resolver that falls back to the last entry of the global list
LookupGlobalLast(name, props, glob) ==
    LET k == _normalise_property_name(name)
    IN  IF props # None /\ DOMAIN props[1] # {} /\ k \in DOMAIN props[1]
        THEN Some(props[1][k])
        ELSE IF k \in DOMAIN glob THEN Some(glob[k][Len(glob[k])])
        ELSE None

lookup_property(name, props, glob) ==
    LET k == _normalise_property_name(name)
    IN  IF props # None /\ DOMAIN props[1] # {} /\ k \in DOMAIN props[1]
        THEN Some(props[1][k])
        ELSE IF k \in DOMAIN glob THEN Some(glob[k][1])
        ELSE None

(***************************************************************************)
(* Sample schema dictionaries and headers                                  *)
(***************************************************************************)
Prop(n, t, r, m, l) == [Name |-> n, Type |-> t, required |-> r, MaxLength |-> m, label |-> l]

EmpJob ==
    [Name |-> "EmpJob",
     Property |-> << Prop("EmployeeID", "Edm.String", "true", "20", "Employee ID"),
                     Prop("Gender", "SFOData.GenderEnum", "", "", ""),
                     Prop("noticePeriod", "Edm.Int64", "", "", "Notice Period") >>]

EmpJobPermissions ==
    [Name |-> "EmpJobPermissions",
     Property |-> << Prop("EmployeeID", "Edm.Boolean", "", "", ""),
                     Prop("Gender", "Edm.Boolean", "", "", "") >>]

EmpJobGBR ==
    [Name |-> "EmpJobGBR",
     Property |-> << Prop("employee_id", "Edm.String", "false", "10", "Employee"),
                     Prop("notice_period", "Edm.String", "true", "3", "Notice") >>]

EmpJobUSA ==
    [Name |-> "EmpJobUSA",
     Property |-> << Prop("employeeId", "Edm.String", "", "", ""),
                     Prop("noticeperiod", "Edm.String", "yes", "", "") >>]

PerPerson ==
    [Name |-> "PerPerson",
     Property |-> << Prop("userId", "Edm.DateTime", "false", "", "User"),
                     Prop("Gender", "Edm.String", "false", "1", "Gender"),
                     Prop("gender", "Edm.String", "true", "6", "Sex"),
                     Prop("operation", "Edm.String", "true", "", "") >>]

\* an entity type whose only property has a name made of a separator
Misc ==
    [Name |-> "Misc",
     Property |-> << Prop("_", "Edm.String", "", "", "") >>]

EntityPool == {EmpJob, EmpJobPermissions, EmpJobGBR, EmpJobUSA, PerPerson}

MaxEntityTypes == 2
MaxHeaders == 2

RECURSIVE SeqsUpTo(_, _)
SeqsUpTo(S, n) ==
    IF n = 0 THEN {<<>>}
    ELSE SeqsUpTo(S, n - 1) \cup {Append(q, x) : q \in SeqsUpTo(S, n - 1), x \in S}

MatchHeaders == {"Employee-ID", "Gender", "job.notice_period", "Foo"}
Countries == {"", "GBR", "USA"}

(***************************************************************************)
(* Specification of the matcher: a dictionary is parsed into the indices   *)
(* and find_best_entity_type is called on a header row.                    *)
(***************************************************************************)
InitMatch ==
    /\ idleRef /\ idleRun /\ idleNorm /\ idleClass /\ idleMatch /\ idleLook
    /\ xml_file \in SeqsUpTo(EntityPool, MaxEntityTypes)
    /\ global_lookup = EmptyDict /\ entity_lookup = <<>>
    /\ property_names \in SeqsUpTo(MatchHeaders, MaxHeaders)
    /\ data_rows = <<>>
    /\ country \in Countries
    /\ skip_operation = FALSE /\ resolved_picklists = None
    /\ extract_column = 0
    /\ result = None /\ pc = "start"

ParseXmlMetadata ==
    /\ pc = "start"
    /\ \E r \in {parse_xml_metadata(xml_file)} :
          /\ global_lookup' = r.global_lookup
          /\ entity_lookup' = r.entity_lookup
    /\ pc' = "indexed"
    /\ UNCHANGED <<xml_file, normVars, classVars, tmplVars, cfgVars, matchVars, lookVars, refVars, runVars, result>>

FindBestEntityType ==
    /\ pc = "indexed"
    /\ best_name' = Some(find_best_entity_type(property_names, entity_lookup, country))
    /\ pc' = "matched"
    /\ UNCHANGED <<xmlVars, normVars, classVars, tmplVars, cfgVars, lookVars, refVars, runVars, result>>

NextMatch ==
    \/ ParseXmlMetadata
    \/ FindBestEntityType

SpecMatch == InitMatch /\ [][NextMatch]_vars

\* number of keys the header row shares with entity type i of the index
\* the normalised key of every header of the matcher's samples
HeaderKey == [h \in MatchHeaders |-> _normalise_property_name(h)]

SharedKeys(i) ==
    Cardinality({k \in DOMAIN entity_lookup[i].props :
                    \E j \in 1..Len(property_names) :
                        HeaderKey[property_names[j]] = k})

\* C4: none is returned exactly when no entity type shares a normalised key
\* with the headers; whenever some entity type shares one, an entity type is
\* returned.
NoneIffNoSharedKey ==
    pc = "matched" =>
        (best_name[1] = None <=> \A i \in 1..Len(entity_lookup) : SharedKeys(i) = 0)

IndexOf(name) == CHOOSE i \in 1..Len(entity_lookup) : entity_lookup[i].name = name

TripleOf(i) ==
    EntityScore({HeaderKey[property_names[j]] : j \in 1..Len(property_names)},
                entity_lookup[i].name,
                entity_lookup[i].props, country)

TripleGreater(a, b) ==
    IF a.match_count # b.match_count THEN a.match_count > b.match_count
    ELSE IF a.num * b.den # b.num * a.den THEN a.num * b.den > b.num * a.den
    ELSE a.bonus > b.bonus

SameTriple(a, b) ==
    /\ a.match_count = b.match_count
    /\ a.num * b.den = b.num * a.den
    /\ a.bonus = b.bonus

\* C5: the returned entity type's (match_count, ratio, country_bonus) is
\* lexicographically at least that of every candidate, and of the candidates
\* with the same triple it is the first in the index's iteration order.
BestIsFirstMaximal ==
    (pc = "matched" /\ best_name[1] # None) =>
        LET e == IndexOf(best_name[1][1])
        IN  \A j \in 1..Len(entity_lookup) :
                SharedKeys(j) > 0 =>
                    /\ ~TripleGreater(TripleOf(j), TripleOf(e))
                    /\ SameTriple(TripleOf(j), TripleOf(e)) => e <= j

BestIsFirstMaximalWitness ==
    /\ pc = "matched" /\ best_name[1] # None
    /\ \E j \in 1..Len(entity_lookup) :
          /\ j # IndexOf(best_name[1][1])
          /\ SharedKeys(j) > 0
          /\ SameTriple(TripleOf(j), TripleOf(IndexOf(best_name[1][1])))

IsMirrorName(n) ==
    \E suf \in {"Permissions", "Permission", "FieldControls"} :
        Len(n) >= Len(suf) /\ SubSeq(n, Len(n) - Len(suf) + 1, Len(n)) = suf

\* the primary key of the score the returned entity type was chosen with,
\* recomputed from the raw number of shared keys
PrimaryKey(i) ==
    IF IsMirrorName(entity_lookup[i].name) THEN SharedKeys(i) \div 2 ELSE SharedKeys(i)

HasCountrySuffix(n, code) ==
    Len(n) >= Len(code) /\ SubSeq(n, Len(n) - Len(code) + 1, Len(n)) = code

\* the country bonus stated for entity type i under the chosen filter
StatedBonus(i) ==
    IF country = "" THEN 0
    ELSE IF HasCountrySuffix(entity_lookup[i].name, country) THEN 1
    ELSE IF \E oc \in COUNTRY_CODES :
                oc # country /\ HasCountrySuffix(entity_lookup[i].name, oc) THEN 0 - 1
    ELSE 0

\* entity types i and j have the same match count and the same ratio
SameCountAndRatio(i, j) ==
    /\ PrimaryKey(i) = PrimaryKey(j)
    /\ PrimaryKey(i) * Cardinality(DOMAIN entity_lookup[j].props)
           = PrimaryKey(j) * Cardinality(DOMAIN entity_lookup[i].props)

\* entity type j is ahead of entity type i on match count, then ratio
AheadOnCountOrRatio(j, i) ==
    \/ PrimaryKey(j) > PrimaryKey(i)
    \/ /\ PrimaryKey(j) = PrimaryKey(i)
       /\ PrimaryKey(j) * Cardinality(DOMAIN entity_lookup[i].props)
              > PrimaryKey(i) * Cardinality(DOMAIN entity_lookup[j].props)

\* C21: the country bonus of a candidate is +1 when a filter is supplied and
\* the entity name ends with it, -1 when a filter is supplied and the name
\* ends with another known country code, and 0 otherwise (0 for every entity
\* type without a filter); the bonus decides only between candidates equal
\* on match count and ratio: no candidate ahead of the returned one on those
\* two loses to it, and of the candidates equal to it on both none has a
\* higher bonus.
CountryBonusBreaksTies ==
    pc = "matched" =>
        /\ \A i \in 1..Len(entity_lookup) : TripleOf(i).bonus = StatedBonus(i)
        /\ best_name[1] # None =>
              LET e == IndexOf(best_name[1][1])
              IN  \A j \in 1..Len(entity_lookup) :
                      SharedKeys(j) > 0 =>
                          /\ ~AheadOnCountOrRatio(j, e)
                          /\ SameCountAndRatio(j, e) => StatedBonus(j) <= StatedBonus(e)

\* a later entity type of the filter's country is returned over an earlier
\* one of another country with the same match count and ratio
CountryBonusBreaksTiesWitness ==
    /\ pc = "matched" /\ best_name[1] # None /\ country # ""
    /\ LET e == IndexOf(best_name[1][1])
       IN  /\ StatedBonus(e) = 1
           /\ \E j \in 1..Len(entity_lookup) :
                 /\ j < e /\ SharedKeys(j) > 0
                 /\ SameCountAndRatio(j, e)
                 /\ StatedBonus(j) = 0 - 1

(***************************************************************************)
(* Specification of the resolver: a dictionary is parsed into the indices  *)
(* and lookup_property is called for a header, with no matched entity      *)
(* type, with an empty property map or with an entity type's property map. *)
(***************************************************************************)
LookupHeaders == {"Employee-ID", "job.Gender", "USER_ID", "notice period", "Foo", ""}

InitResolve ==
    /\ idleRef /\ idleRun /\ idleNorm /\ idleClass /\ idleMatch /\ idleLook /\ idleTmpl /\ idleCfg
    /\ xml_file \in SeqsUpTo(EntityPool, MaxEntityTypes)
    /\ global_lookup = EmptyDict /\ entity_lookup = <<>>
    /\ result = None /\ pc = "start"

LookupProperty(h, ep) ==
    /\ pc = "indexed"
    /\ column_name' = h
    /\ entity_props' = ep
    /\ meta' = Some(lookup_property(h, ep, global_lookup))
    /\ pc' = "resolved"
    /\ UNCHANGED <<xmlVars, normVars, classVars, tmplVars, cfgVars, matchVars, refVars, runVars, result>>

EntityPropsChoices ==
    {None, Some(EmptyDict)} \cup {Some(entity_lookup[i].props) : i \in 1..Len(entity_lookup)}

NextResolve ==
    \/ ParseXmlMetadata
    \/ \E h \in LookupHeaders, ep \in EntityPropsChoices : LookupProperty(h, ep)

SpecResolve == InitResolve /\ [][NextResolve]_vars

\* positions (entity type, property) of the dictionary whose property name
\* normalises to k
DeclaredAt(k) ==
    {p \in UNION {{<<i, j>> : j \in 1..Len(xml_file[i].Property)} : i \in 1..Len(xml_file)} :
        _normalise_property_name(xml_file[p[1]].Property[p[2]].Name) = k}

FirstDeclared(k) ==
    CHOOSE p \in DeclaredAt(k) :
        \A q \in DeclaredAt(k) : p[1] < q[1] \/ (p[1] = q[1] /\ p[2] <= q[2])

\* C6: the matched entity type's own entry is returned when entity properties
\* are supplied and hold the key; otherwise the entry of the first property in
\* document order with that key; none only when the key is in neither.
LookupPrefersEntityThenFirstGlobal ==
    pc = "resolved" =>
        LET k == _normalise_property_name(column_name)
        IN  IF entity_props # None /\ k \in DOMAIN entity_props[1]
            THEN meta[1] = Some(entity_props[1][k])
            ELSE IF DeclaredAt(k) # {}
            THEN LET p == FirstDeclared(k)
                 IN  meta[1] = Some(PropertyEntry(xml_file[p[1]].Name,
                                                  xml_file[p[1]].Property[p[2]]))
            ELSE meta[1] = None

LookupPrefersEntityThenFirstGlobalWitness ==
    /\ pc = "resolved"
    /\ entity_props # None
    /\ DOMAIN entity_props[1] # {}
    /\ _normalise_property_name(column_name) \notin DOMAIN entity_props[1]
    /\ meta[1] # None
    /\ Len(global_lookup[_normalise_property_name(column_name)]) >= 2
    /\ meta[1][1].entity_type = xml_file[1].Name

(***************************************************************************)
(* Template row builder                                                    *)
(***************************************************************************)
_IDENTITY_USERID_NORM == "userid"
_IDENTITY_PERSONID_NORM == "personidexternal"
_IDENTITY_NORMS == {_IDENTITY_USERID_NORM, _IDENTITY_PERSONID_NORM}
_IDENTITY_LABELS ==
    [k \in _IDENTITY_NORMS |->
        IF k = _IDENTITY_USERID_NORM THEN "User ID" ELSE "Person ID External"]
_OPERATION_NORM == "operation"
_MAX_PICKLIST_VALUES == 20

\* sep.join(items)
RECURSIVE Join(_, _)
Join(items, sep) ==
    IF items = <<>> THEN ""
    ELSE IF Len(items) = 1 THEN items[1]
    ELSE items[1] \o sep \o Join(Tail(items), sep)

InSeq(x, q) == \E i \in 1..Len(q) : q[i] = x

\* a scan that keeps every non-blank value, repeated or not
RECURSIVE ExtractFromKeepingDuplicates(_, _, _, _, _)
ExtractFromKeepingDuplicates(column_index, rows, r, seen, max_values) ==
    IF r > Len(rows) THEN seen
    ELSE IF column_index <= Len(rows[r]) /\ Strip(rows[r][column_index]) # ""
    THEN IF Len(seen) + 1 >= max_values
         THEN Append(seen, Strip(rows[r][column_index]))
         ELSE ExtractFromKeepingDuplicates(column_index, rows, r + 1,
                                           Append(seen, Strip(rows[r][column_index])),
                                           max_values)
    ELSE ExtractFromKeepingDuplicates(column_index, rows, r + 1, seen, max_values)

\* the loop of _extract_picklist_values from row r on; column_index counts from 1
RECURSIVE ExtractFrom(_, _, _, _, _)
ExtractFrom(column_index, rows, r, seen, max_values) ==
    IF r > Len(rows) THEN seen
    ELSE IF column_index <= Len(rows[r])
    THEN LET val == Strip(rows[r][column_index])
         IN  IF val # "" /\ ~InSeq(val, seen)
             THEN IF Len(seen) + 1 >= max_values
                  THEN Append(seen, val)
                  ELSE ExtractFrom(column_index, rows, r + 1, Append(seen, val), max_values)
             ELSE ExtractFrom(column_index, rows, r + 1, seen, max_values)
    ELSE ExtractFrom(column_index, rows, r + 1, seen, max_values)

\* a scan without the cap
ExtractUncapped(column_index, rows) ==
    Join(ExtractFrom(column_index, rows, 1, <<>>, Len(rows) + 1), ", ")

_extract_picklist_values(column_index, rows) ==
    Join(ExtractFrom(column_index, rows, 1, <<>>, _MAX_PICKLIST_VALUES), ", ")

Cell(l, t, m, x, p) == [label |-> l, type |-> t, mandatory |-> m, max_length |-> x, picklist |-> p]

\* a Picklist Values cell that prefers the data rows to the override
PicklistCellDataFirst(i, k, typ, rows, resolved) ==
    IF _is_picklist_column(k, typ)
    THEN IF rows # <<>> THEN _extract_picklist_values(i, rows)
         ELSE IF resolved # None /\ DOMAIN resolved[1] # {} /\ k \in DOMAIN resolved[1]
         THEN resolved[1][k]
         ELSE ""
    ELSE ""

\* the Picklist Values cell of a column that is no identity or skipped column
PicklistCell(i, k, typ, rows, resolved) ==
    IF _is_picklist_column(k, typ)
    THEN IF resolved # None /\ DOMAIN resolved[1] # {} /\ k \in DOMAIN resolved[1]
         THEN resolved[1][k]
         ELSE IF rows # <<>> THEN _extract_picklist_values(i, rows)
         ELSE ""
    ELSE ""

\* a type that is never upgraded
FinalTypeKeepingString(k, t0) == t0

\* the type upgrade of a string column whose key the classifier accepts
FinalType(k, t0) ==
    IF t0 = "string" /\ _is_picklist_column(k, "string") THEN "picklist" ELSE t0

\* a Mandatory value that has no rule for duration columns
MandatoryIgnoringDuration(k, required) ==
    IF required # "" THEN required ELSE "false"

\* the Mandatory value of a resolved column
MandatoryOf(k, required) ==
    IF _is_duration_column(k)
    THEN (IF required = "true" THEN required ELSE "false")
    ELSE (IF required # "" THEN required ELSE "false")

\* the values of a resolved column with the schema label and no fallback
ResolvedCellsSchemaLabel(prop_name, i, k, e, typ, rows, resolved) ==
    Cell(e.label,
         typ,
         MandatoryOf(k, e.required),
         IF typ \in {"date", "time"} THEN "10" ELSE e.max_length,
         PicklistCell(i, k, typ, rows, resolved))

\* the five values of a column resolved to entry e, its final type being typ
ResolvedCells(prop_name, i, k, e, typ, rows, resolved) ==
    Cell(IF e.label # "" THEN e.label ELSE prop_name,
         typ,
         MandatoryOf(k, e.required),
         IF typ \in {"date", "time"} THEN "10" ELSE e.max_length,
         PicklistCell(i, k, typ, rows, resolved))

\* a loop body that forces the identity metadata only when the schema has none
CellsForLookupFirst(prop_name, i, k, m, skip, rows, resolved) ==
    IF k = _OPERATION_NORM /\ skip
    THEN Cell("Operation", "string", "false", "", "")
    ELSE IF m # None
    THEN ResolvedCells(prop_name, i, k, m[1], FinalType(k, friendly_type(m[1].type)),
                       rows, resolved)
    ELSE IF k \in _IDENTITY_NORMS
    THEN Cell(_IDENTITY_LABELS[k], "string", "true", "100", "")
    ELSE Cell(prop_name, "", "", "", PicklistCell(i, k, "", rows, resolved))

\* a loop body that fills the Picklist Values cell of an unresolved column
\* from the override or the data rows
CellsForUnresolvedFilled(prop_name, i, k, m, skip, rows, resolved) ==
    IF k \in _IDENTITY_NORMS
    THEN Cell(_IDENTITY_LABELS[k], "string", "true", "100", "")
    ELSE IF k = _OPERATION_NORM /\ skip
    THEN Cell("Operation", "string", "false", "", "")
    ELSE IF m # None
    THEN ResolvedCells(prop_name, i, k, m[1], FinalType(k, friendly_type(m[1].type)),
                       rows, resolved)
    ELSE Cell(prop_name, "", "", "", PicklistCell(i, k, "picklist", rows, resolved))

\* the loop body of transform_template for column i with key k and resolver
\* result m: the five values appended
CellsFor(prop_name, i, k, m, skip, rows, resolved) ==
    IF k \in _IDENTITY_NORMS
    THEN Cell(_IDENTITY_LABELS[k], "string", "true", "100", "")
    ELSE IF k = _OPERATION_NORM /\ skip
    THEN Cell("Operation", "string", "false", "", "")
    ELSE IF m # None
    THEN ResolvedCells(prop_name, i, k, m[1], FinalType(k, friendly_type(m[1].type)),
                       rows, resolved)
    ELSE Cell(prop_name, "", "", "", PicklistCell(i, k, "", rows, resolved))

ColumnCells(prop_name, i, props, glob, skip, rows, resolved) ==
    CellsFor(prop_name, i, _normalise_property_name(prop_name),
             lookup_property(prop_name, props, glob), skip, rows, resolved)

EmptyLists ==
    [column_labels |-> <<>>, types |-> <<>>, mandatories |-> <<>>,
     max_lengths |-> <<>>, picklist_values |-> <<>>]

AppendCells(lists, c) ==
    [column_labels |-> Append(lists.column_labels, c.label),
     types |-> Append(lists.types, c.type),
     mandatories |-> Append(lists.mandatories, c.mandatory),
     max_lengths |-> Append(lists.max_lengths, c.max_length),
     picklist_values |-> Append(lists.picklist_values, c.picklist)]

\* a loop that leaves an identity column before appending anything
RECURSIVE BuildListsDroppingIdentity(_, _, _, _, _, _, _, _)
BuildListsDroppingIdentity(names, i, lists, props, glob, skip, rows, resolved) ==
    IF i > Len(names) THEN lists
    ELSE BuildListsDroppingIdentity(names, i + 1,
             IF _normalise_property_name(names[i]) \in _IDENTITY_NORMS THEN lists
             ELSE AppendCells(lists, ColumnCells(names[i], i, props, glob, skip, rows, resolved)),
             props, glob, skip, rows, resolved)

\* the loop over enumerate(property_names), from column i on
RECURSIVE BuildLists(_, _, _, _, _, _, _, _)
BuildLists(names, i, lists, props, glob, skip, rows, resolved) ==
    IF i > Len(names) THEN lists
    ELSE BuildLists(names, i + 1,
             AppendCells(lists, ColumnCells(names[i], i, props, glob, skip, rows, resolved)),
             props, glob, skip, rows, resolved)

Row(name, values) == [index |-> name, values |-> values]

\* entity_lookup.get(best_et) if best_et else None
EntityPropsOf(items, best_et) ==
    IF best_et # None /\ best_et[1] # "" THEN ItemGet(items, best_et[1]) ELSE None

\* the DataFrame of the six rows and the matched entity type
Frame(names, l, best_et) ==
    [df |-> << Row("Column Name", names),
               Row("Column Label", l.column_labels),
               Row("Type", l.types),
               Row("Mandatory", l.mandatories),
               Row("Max Length", l.max_lengths),
               Row("Picklist Values", l.picklist_values) >>,
     best_et |-> best_et]

\* transform_template after the entity type has been matched
TransformMatched(names, glob, items, skip, rows, resolved, best_et) ==
    Frame(names,
          BuildLists(names, 1, EmptyLists, EntityPropsOf(items, best_et), glob, skip,
                     rows, resolved),
          best_et)

transform_template(names, glob, items, ctry, skip, rows, resolved) ==
    TransformMatched(names, glob, items, skip, rows, resolved,
                     find_best_entity_type(names, items, ctry))

(***************************************************************************)
(* Specification of the row builder: a dictionary is parsed into the       *)
(* indices and transform_template is called on a template with a country,  *)
(* the skip-operation flag and an override map.                            *)
(***************************************************************************)
MaxColumns == 2

TemplateHeaders ==
    {"userId", "person-id-external", "Operation", "Gender", "job.notice_period",
     "Employee-ID", "Foo", ""}

SchemaSamples ==
    { <<>>,
      <<EmpJob, PerPerson>>,
      <<EmpJobUSA, EmpJobGBR, PerPerson, EmpJobPermissions, Misc>> }

DataSamples ==
    { <<>>,
      << <<"Male", "Female">>, <<" Female ", "Male">>, <<"Male">> >>,
      << <<"", " ">> >> }

OverrideSamples ==
    { None,
      Some("foo" :> "a, b"),
      Some("gender" :> "M, F" @@ "userid" :> "u1" @@ "foo" :> "a, b"
             @@ "operation" :> "insert" @@ "noticeperiod" :> "1, 2") }

Init ==
    /\ idleRef /\ idleRun /\ idleNorm /\ idleClass /\ idleMatch /\ idleLook
    /\ xml_file \in SchemaSamples
    /\ global_lookup = EmptyDict /\ entity_lookup = <<>>
    /\ property_names \in SeqsUpTo(TemplateHeaders, MaxColumns)
    /\ data_rows \in DataSamples
    /\ country \in {"", "GBR"}
    /\ skip_operation \in BOOLEAN
    /\ resolved_picklists \in OverrideSamples
    /\ extract_column = 0
    /\ result = None /\ pc = "start"

\* a transform that pops the data rows it has scanned
TransformTemplateConsumingRows ==
    /\ pc = "indexed"
    /\ result' = Some(transform_template(property_names, global_lookup, entity_lookup,
                                         country, skip_operation, data_rows,
                                         resolved_picklists))
    /\ pc' = "done"
    /\ data_rows' = <<>>
    /\ UNCHANGED <<xmlVars, normVars, classVars, property_names, extract_column, cfgVars, matchVars,
                   lookVars, refVars, runVars>>

TransformTemplate ==
    /\ pc = "indexed"
    /\ result' = Some(transform_template(property_names, global_lookup, entity_lookup,
                                         country, skip_operation, data_rows,
                                         resolved_picklists))
    /\ pc' = "done"
    /\ UNCHANGED <<xmlVars, normVars, classVars, tmplVars, cfgVars, matchVars, lookVars, refVars, runVars>>

Next ==
    \/ ParseXmlMetadata
    \/ TransformTemplate

Spec == Init /\ [][Next]_vars

Df == result[1].df
ColumnName(i) == Df[1].values[i]
ColumnLabel(i) == Df[2].values[i]
TypeCell(i) == Df[3].values[i]
MandatoryCell(i) == Df[4].values[i]
MaxLengthCell(i) == Df[5].values[i]
PicklistValuesCell(i) == Df[6].values[i]
Columns == 1..Len(property_names)
\* the normalised key of every header of the row builder's samples
TemplateKey == [h \in TemplateHeaders |-> _normalise_property_name(h)]
ColumnKey(i) == TemplateKey[property_names[i]]

\* the property map of the entity type the call matched
MatchedProps == EntityPropsOf(entity_lookup, result[1].best_et)

\* the schema entry of column i: that of the matched entity type, else the
\* first declared under its key in any entity type, else none
ResolvedEntry(i) ==
    IF MatchedProps # None /\ ColumnKey(i) \in DOMAIN MatchedProps[1]
    THEN Some(MatchedProps[1][ColumnKey(i)])
    ELSE IF ColumnKey(i) \in DOMAIN global_lookup THEN Some(global_lookup[ColumnKey(i)][1])
    ELSE None

IsIdentityColumn(i) == ColumnKey(i) \in {"userid", "personidexternal"}
IsSkippedOperation(i) == ColumnKey(i) = "operation" /\ skip_operation

\* C1: the result has exactly six rows in the order Column Name, Column
\* Label, Type, Mandatory, Max Length, Picklist Values; each row has
\* len(headers) values and position i of every row describes header i.
SixAlignedRows ==
    pc = "done" =>
        /\ Len(Df) = 6
        /\ [r \in 1..6 |-> Df[r].index] =
              <<"Column Name", "Column Label", "Type", "Mandatory", "Max Length",
                "Picklist Values">>
        /\ \A r \in 1..6 : Len(Df[r].values) = Len(property_names)
        /\ \A i \in Columns :
              LET c == ColumnCells(property_names[i], i, MatchedProps, global_lookup,
                                   skip_operation, data_rows, resolved_picklists)
              IN  /\ ColumnName(i) = property_names[i]
                  /\ ColumnLabel(i) = c.label
                  /\ TypeCell(i) = c.type
                  /\ MandatoryCell(i) = c.mandatory
                  /\ MaxLengthCell(i) = c.max_length
                  /\ PicklistValuesCell(i) = c.picklist

SixAlignedRowsWitness ==
    /\ pc = "done"
    /\ Len(property_names) = 2
    /\ IsIdentityColumn(1)
    /\ property_names[2] = ""
    /\ data_rows # <<>>
    /\ ColumnLabel(1) # "" /\ ColumnLabel(2) = ""

\* C2: for a column classified as a picklist with an override for its key,
\* the Picklist Values cell is the override, whatever the data rows hold.
OverrideWins ==
    pc = "done" =>
        \A i \in Columns :
            (/\ TypeCell(i) = "picklist"
             /\ resolved_picklists # None
             /\ ColumnKey(i) \in DOMAIN resolved_picklists[1])
            => PicklistValuesCell(i) = resolved_picklists[1][ColumnKey(i)]

OverrideWinsWitness ==
    /\ pc = "done"
    /\ \E i \in Columns :
          /\ TypeCell(i) = "picklist"
          /\ resolved_picklists # None
          /\ ColumnKey(i) \in DOMAIN resolved_picklists[1]
          /\ _extract_picklist_values(i, data_rows) \notin {"", PicklistValuesCell(i)}

\* C3: an identity column gets the canonical label, type string, mandatory
\* true, max length 100 and no picklist values, whatever the schema, the
\* matched entity type, the data rows and the overrides hold for its key.
IdentityColumnsForced ==
    pc = "done" =>
        \A i \in Columns :
            IsIdentityColumn(i) =>
                /\ ColumnLabel(i) =
                      (IF ColumnKey(i) = "userid" THEN "User ID" ELSE "Person ID External")
                /\ TypeCell(i) = "string"
                /\ MandatoryCell(i) = "true"
                /\ MaxLengthCell(i) = "100"
                /\ PicklistValuesCell(i) = ""

IdentityColumnsForcedWitness ==
    /\ pc = "done"
    /\ \E i \in Columns :
          /\ ColumnKey(i) = "userid"
          /\ ResolvedEntry(i) # None
          /\ ResolvedEntry(i)[1].type = "Edm.DateTime"
          /\ ResolvedEntry(i)[1].required = "false"
          /\ resolved_picklists # None
          /\ "userid" \in DOMAIN resolved_picklists[1]
          /\ _extract_picklist_values(i, data_rows) # ""

IsDurationKey(k) ==
    \E kw \in {"duration", "period", "lengthofservice", "tenure", "probation",
               "probationperiod", "noticperiod", "noticeperiod", "servicedate"} :
        \E a \in 1..Len(k) : \E b \in a..Len(k) : SubSeq(k, a, b) = kw

\* C10: for a resolved column that is no identity column and no skipped
\* operation column, the Mandatory cell equals the schema's required flag,
\* except that for a duration/period column it is "false" unless the flag is
\* "true".
MandatoryEqualsFlag ==
    pc = "done" =>
        \A i \in Columns :
            (ResolvedEntry(i) # None /\ ~IsIdentityColumn(i) /\ ~IsSkippedOperation(i)) =>
                LET flag == ResolvedEntry(i)[1].required
                IN  MandatoryCell(i) =
                        IF IsDurationKey(ColumnKey(i))
                        THEN (IF flag = "true" THEN "true" ELSE "false")
                        ELSE flag

\* C10, amended: the Mandatory cell equals the schema's required flag when the
\* flag is not empty and is "false" when the flag is empty (the attribute is
\* missing), except that for a duration/period column it is "false" unless
\* the flag is "true".
MandatoryFlagOrFalse ==
    pc = "done" =>
        \A i \in Columns :
            (ResolvedEntry(i) # None /\ ~IsIdentityColumn(i) /\ ~IsSkippedOperation(i)) =>
                LET flag == ResolvedEntry(i)[1].required
                IN  MandatoryCell(i) =
                        IF IsDurationKey(ColumnKey(i))
                        THEN (IF flag = "true" THEN "true" ELSE "false")
                        ELSE IF flag = "" THEN "false"
                        ELSE flag

MandatoryFlagOrFalseWitness ==
    /\ pc = "done"
    /\ \E i \in Columns :
          /\ ResolvedEntry(i) # None
          /\ IsDurationKey(ColumnKey(i))
          /\ ResolvedEntry(i)[1].required \notin {"", "true", "false"}
          /\ MandatoryCell(i) = "false"
    /\ \E i \in Columns :
          /\ ResolvedEntry(i) # None /\ ~IsIdentityColumn(i) /\ ~IsSkippedOperation(i)
          /\ ~IsDurationKey(ColumnKey(i))
          /\ ResolvedEntry(i)[1].required = ""
          /\ MandatoryCell(i) = "false"

\* C11: the Type row and the Picklist Values row agree: a Picklist Values
\* cell is non-empty only under Type "picklist", and a resolved column whose
\* schema type is string has Type "picklist" exactly when the classifier's
\* rules accept its key, otherwise Type "string" and no picklist values.
TypeAndPicklistConsistent ==
    pc = "done" =>
        \A i \in Columns :
            /\ PicklistValuesCell(i) # "" => TypeCell(i) = "picklist"
            /\ (/\ ResolvedEntry(i) # None
                /\ ~IsIdentityColumn(i) /\ ~IsSkippedOperation(i)
                /\ ResolvedEntry(i)[1].type = "Edm.String")
               => IF LikelyEnumerated(ColumnKey(i)) /\ ~NeverEnumerated(ColumnKey(i))
                  THEN TypeCell(i) = "picklist"
                  ELSE TypeCell(i) = "string" /\ PicklistValuesCell(i) = ""

TypeAndPicklistConsistentWitness ==
    /\ pc = "done"
    /\ \E i \in Columns :
          /\ ResolvedEntry(i) # None
          /\ ResolvedEntry(i)[1].type = "Edm.String"
          /\ TypeCell(i) = "picklist"
          /\ PicklistValuesCell(i) # ""
    /\ \E i \in Columns :
          /\ ResolvedEntry(i) # None /\ ~IsIdentityColumn(i) /\ ~IsSkippedOperation(i)
          /\ ResolvedEntry(i)[1].type = "Edm.String"
          /\ TypeCell(i) = "string"
          /\ resolved_picklists # None
          /\ ColumnKey(i) \in DOMAIN resolved_picklists[1]
          /\ _extract_picklist_values(i, data_rows) # ""

\* C12: a header the resolver cannot resolve, that is no identity column and
\* no skipped operation column, gets its raw header as Column Label and empty
\* Type, Mandatory, Max Length and Picklist Values cells, whatever override or
\* data-row values exist for the column.
UnresolvedColumnsBlank ==
    pc = "done" =>
        \A i \in Columns :
            (ResolvedEntry(i) = None /\ ~IsIdentityColumn(i) /\ ~IsSkippedOperation(i)) =>
                /\ ColumnLabel(i) = property_names[i]
                /\ TypeCell(i) = ""
                /\ MandatoryCell(i) = ""
                /\ MaxLengthCell(i) = ""
                /\ PicklistValuesCell(i) = ""

UnresolvedColumnsBlankWitness ==
    /\ pc = "done"
    /\ xml_file # <<>>
    /\ \E i \in Columns :
          /\ ResolvedEntry(i) = None /\ ~IsIdentityColumn(i) /\ ~IsSkippedOperation(i)
          /\ property_names[i] # ""
          /\ resolved_picklists # None
          /\ ColumnKey(i) \in DOMAIN resolved_picklists[1]
          /\ _extract_picklist_values(i, data_rows) # ""
          /\ ColumnLabel(i) = property_names[i]

\* C19: for a template with zero data rows in which every header resolves
\* to a schema property, every column whose final Type is not "picklist" has
\* an empty Picklist Values cell and every column has a non-empty Column
\* Label cell.
ZeroRowsRoundTrip ==
    (pc = "done" /\ data_rows = <<>> /\ \A i \in Columns : ResolvedEntry(i) # None) =>
        \A i \in Columns :
            /\ TypeCell(i) # "picklist" => PicklistValuesCell(i) = ""
            /\ ColumnLabel(i) # ""

\* C19, amended: the Column Label cell is non-empty for every column whose
\* header is not the empty string.
ZeroRowsRoundTripNamed ==
    (pc = "done" /\ data_rows = <<>> /\ \A i \in Columns : ResolvedEntry(i) # None) =>
        \A i \in Columns :
            /\ TypeCell(i) # "picklist" => PicklistValuesCell(i) = ""
            /\ property_names[i] # "" => ColumnLabel(i) # ""

ZeroRowsRoundTripNamedWitness ==
    /\ pc = "done" /\ data_rows = <<>>
    /\ Len(property_names) = 2
    /\ \A i \in Columns : ResolvedEntry(i) # None
    /\ \E i \in Columns :
          /\ ~IsIdentityColumn(i) /\ ~IsSkippedOperation(i)
          /\ ResolvedEntry(i)[1].label = ""
          /\ ColumnLabel(i) = property_names[i]
          /\ property_names[i] # ""
    /\ \E i \in Columns :
          /\ TypeCell(i) \notin {"picklist", ""}
          /\ resolved_picklists # None
          /\ ColumnKey(i) \in DOMAIN resolved_picklists[1]
          /\ PicklistValuesCell(i) = ""

(***************************************************************************)
(* Specification of repeated calls: after the indices are built, the       *)
(* template is transformed and transformed again with the same arguments;  *)
(* find_best_entity_type and lookup_property are called on the same        *)
(* indices.                                                                *)
(***************************************************************************)
PureHeaders == {"userId", "Gender", "Foo", "Employee-ID"}

InitPure ==
    /\ idleRef /\ idleRun /\ idleNorm /\ idleClass /\ idleMatch /\ idleLook
    /\ xml_file \in SchemaSamples
    /\ global_lookup = EmptyDict /\ entity_lookup = <<>>
    /\ property_names \in SeqsUpTo(PureHeaders, MaxColumns)
    /\ data_rows \in DataSamples
    /\ country \in {"", "GBR"}
    /\ skip_operation = FALSE
    /\ resolved_picklists \in OverrideSamples
    /\ extract_column = 0
    /\ result = None /\ pc = "start"

\* the second call of transform_template, with the arguments of the first
TransformTemplateAgain ==
    /\ pc = "done"
    /\ result' = Some(transform_template(property_names, global_lookup, entity_lookup,
                                         country, skip_operation, data_rows,
                                         resolved_picklists))
    /\ pc' = "again"
    /\ UNCHANGED <<xmlVars, normVars, classVars, tmplVars, cfgVars, matchVars, lookVars,
                   refVars, runVars>>

NextPure ==
    \/ ParseXmlMetadata
    \/ TransformTemplate
    \/ TransformTemplateAgain
    \/ FindBestEntityType
    \/ \E i \in 1..Len(property_names) :
          LookupProperty(property_names[i],
                         EntityPropsOf(entity_lookup,
                                       find_best_entity_type(property_names, entity_lookup,
                                                             country)))

SpecPure == InitPure /\ [][NextPure]_vars

ValueNames ==
    <<"v01", "v02", "v03", "v04", "v05", "v06", "v07", "v08", "v09", "v10",
      "v11", "v12", "v13", "v14", "v15", "v16", "v17", "v18", "v19", "v20",
      "v21", "v22", "v23", "v24">>

\* the largest number of distinct values of a sample
MaxDistinct == 22

\* n rows with n distinct values in the second column
PlainRows(n) == [i \in 1..n |-> <<"id", ValueNames[i]>>]

\* the same values from the last to the first
ReversedRows(n) == [i \in 1..n |-> <<"id", ValueNames[n + 1 - i]>>]

\* for every value a row too short for the second column, a row with the
\* value between spaces and an empty first cell, and a row repeating the
\* value before it (a blank cell for the first)
MixedRows(n) ==
    [j \in 1..(3 * n) |->
        IF j % 3 = 1 THEN <<"id">>
        ELSE IF j % 3 = 2 THEN <<"", " " \o ValueNames[(j + 1) \div 3] \o "\t">>
        ELSE IF j = 3 THEN <<"id", "  ">>
        ELSE <<"id", ValueNames[(j \div 3) - 1] \o " ">>]

\* n rows with one value, written with and without spaces around it
SameRows(n) == [i \in 1..n |-> <<"id", IF i % 2 = 0 THEN " Male " ELSE "Male">>]

ExtractSamples ==
    UNION {{PlainRows(n), ReversedRows(n), MixedRows(n), SameRows(n)} : n \in 0..MaxDistinct}

InitExtract ==
    /\ idleRef /\ idleRun /\ idleNorm /\ idleClass /\ idleXml /\ idleCfg /\ idleMatch /\ idleLook
    /\ property_names = <<>>
    /\ data_rows \in ExtractSamples
    /\ extract_column \in 1..3
    /\ result = None /\ pc = "start"

ExtractPicklistValues ==
    /\ pc = "start"
    /\ result' = Some(_extract_picklist_values(extract_column, data_rows))
    /\ pc' = "extracted"
    /\ UNCHANGED <<xmlVars, normVars, classVars, tmplVars, cfgVars, matchVars, lookVars,
                   refVars, runVars>>

NextExtract == ExtractPicklistValues

SpecExtract == InitExtract /\ [][NextExtract]_vars

\* the trimmed text of the cell of row r at the column
TrimmedAt(r) == Strip(data_rows[r][extract_column])

\* the rows where a non-blank trimmed value is seen for the first time
FirstSeenRows ==
    {r \in 1..Len(data_rows) :
        /\ extract_column <= Len(data_rows[r])
        /\ TrimmedAt(r) # ""
        /\ \A q \in 1..(r - 1) :
               extract_column <= Len(data_rows[q]) => TrimmedAt(q) # TrimmedAt(r)}

\* the k-th of those rows, in row order
KthFirstSeen(k) ==
    CHOOSE r \in FirstSeenRows : Cardinality({q \in FirstSeenRows : q < r}) = k - 1

\* the texts of a sequence put one after the other with ", " between them
RECURSIVE CommaJoined(_)
CommaJoined(q) ==
    IF q = <<>> THEN ""
    ELSE IF Len(q) = 1 THEN q[1]
    ELSE CommaJoined(SubSeq(q, 1, Len(q) - 1)) \o ", " \o q[Len(q)]

\* C24: _extract_picklist_values returns, comma-joined, the distinct
\* non-blank trimmed values found at the column's position in the data rows
\* in first-seen row order, the first 20 of them and nothing else when there
\* are more; rows too short for the column are skipped and the result is
\* empty when no row has a non-blank value there.
ExtractFirstSeenCapped ==
    pc = "extracted" =>
        LET n == Cardinality(FirstSeenRows)
            kept == IF n > 20 THEN 20 ELSE n
        IN  result[1] = CommaJoined([k \in 1..kept |-> TrimmedAt(KthFirstSeen(k))])

\* more than 20 distinct values, with short rows, blank cells and repeated
\* values between them, have been scanned
ExtractFirstSeenCappedWitness ==
    /\ pc = "extracted"
    /\ Cardinality(FirstSeenRows) > 20
    /\ \E r \in 1..Len(data_rows) : extract_column > Len(data_rows[r])
    /\ \E r \in 1..Len(data_rows) :
          /\ extract_column <= Len(data_rows[r])
          /\ r \notin FirstSeenRows
          /\ r < KthFirstSeen(20)
    /\ result[1] # ""

(***************************************************************************)
(* Picklist reference files.  A file is a record of its upload name, a     *)
(* flag telling whether it can be read, the cell texts of a CSV (grid) and *)
(* the sheets of a workbook; a sheet has a name and a grid of cell texts.  *)
(* iloc[r, c] of the code is grid[r + 1][c + 1] here.                      *)
(***************************************************************************)
\* the cell texts pandas reads as a missing value
NA_VALUES ==
    {"", "#N/A", "#N/A N/A", "#NA", "-1.#IND", "-1.#QNAN", "-NaN", "-nan",
     "1.#IND", "1.#QNAN", "<NA>", "N/A", "NA", "NULL", "NaN", "None", "n/a",
     "nan", "null"}

\* str(cell) of a cell read with dtype=str: a missing value is the float nan
StrCell(text) == IF text \in NA_VALUES THEN "nan" ELSE text

\* cell.fillna("")
FillNa(text) == IF text \in NA_VALUES THEN "" ELSE text

\* os.path.basename(p)
Basename(p) == RSplitLast(p, "/")

\* os.path.splitext(p) of a path without directories: <<root, ext>>
SplitExt(p) ==
    LET dots == {i \in 2..Len(p) :
                    /\ CharAt(p, i) = "."
                    /\ \E j \in 1..(i - 1) : CharAt(p, j) # "."}
    IN  IF dots = {} THEN <<p, "">>
        ELSE <<SubSeq(p, 1, SetMax(dots) - 1), SubSeq(p, SetMax(dots), Len(p))>>

NoReference == [picklist_tables |-> <<>>, col_to_picklist |-> EmptyDict]

\* the (code, label) pair of data row r for a table whose codes are in
\* column code_col, none when the code is blank
PairAt(grid, r, code_col) ==
    LET ncols == Len(grid[1])
        code_val == IF code_col <= ncols THEN Strip(StrCell(grid[r][code_col])) ELSE ""
        label_val == IF code_col + 1 <= ncols
                     THEN Strip(StrCell(grid[r][code_col + 1])) ELSE ""
    IN  IF code_val # "" /\ Lower(code_val) # "nan"
        THEN Some(<<code_val, IF label_val # "" /\ Lower(label_val) # "nan"
                              THEN label_val ELSE "">>)
        ELSE None

\* the loop over the data rows of one table, from row r on
RECURSIVE ValuesFrom(_, _, _, _)
ValuesFrom(grid, r, code_col, values) ==
    IF r > Len(grid) THEN values
    ELSE ValuesFrom(grid, r + 1, code_col,
                    IF PairAt(grid, r, code_col) # None
                    THEN Append(values, PairAt(grid, r, code_col)[1])
                    ELSE values)

CsvHeaderWords == {"code", "id", "value", "key", "externalcode"}

\* the CSV path of parse_picklist_reference
ParseCsv(f) ==
    LET stem == Strip(SplitExt(Basename(f.name))[1])
        picklist_name == IF stem # "" THEN stem ELSE "Picklist"
    IN  IF ~f.readable \/ Len(f.grid) < 1 THEN NoReference
        ELSE LET start_row ==
                     IF Lower(Strip(StrCell(f.grid[1][1]))) \in CsvHeaderWords
                     THEN 2 ELSE 1
                 values == ValuesFrom(f.grid, start_row, 1, <<>>)
             IN  [picklist_tables |->
                      IF values # <<>> THEN ItemSet(<<>>, picklist_name, values) ELSE <<>>,
                  col_to_picklist |-> EmptyDict]

\* the sheets of a workbook whose name ends with (Data)
DataSheets(f) == SelectSeq(f.sheets, LAMBDA sh : EndsWith(sh.name, "(Data)"))

\* the columns whose second row says Code and whose first row names a table,
\* as <<column, display_name>> in column order
RECURSIVE TablePositions(_, _, _)
TablePositions(row0, row1, c_idx) ==
    IF c_idx > Len(row1) THEN <<>>
    ELSE (IF /\ Lower(Strip(row1[c_idx])) = "code"
             /\ Strip(row0[c_idx]) # ""
             /\ Lower(Strip(row0[c_idx])) # "nan"
          THEN << <<c_idx, Strip(row0[c_idx])>> >>
          ELSE <<>>) \o TablePositions(row0, row1, c_idx + 1)

\* the columns left of the first Code column that have a technical name and a
\* human label
LeftLabels(row0, row1, first_code_col) ==
    {c \in 1..(first_code_col - 1) :
        /\ Strip(row0[c]) # "" /\ Lower(Strip(row0[c])) # "nan"
        /\ Strip(row1[c]) # "" /\ Lower(Strip(row1[c])) # "nan"}

\* d.setdefault(name, props) on an insertion-ordered dict
ItemSetDefault(items, name, props) ==
    IF \E i \in 1..Len(items) : items[i].name = name THEN items
    ELSE Append(items, [name |-> name, props |-> props])

\* d.setdefault(k, v)
DictSetDefault(d, k, v) == IF k \in DOMAIN d THEN d ELSE DictSet(d, k, v)

\* one table of a sheet: a table with values is set in the sheet's tables and
\* kept in the file's tables unless the name is there already
AddTable(st, display_name, values) ==
    IF values # <<>>
    THEN [sheet_tables |-> ItemSet(st.sheet_tables, display_name, values),
          picklist_tables |-> ItemSetDefault(st.picklist_tables, display_name, values)]
    ELSE st

\* the loop over the table positions of a sheet, from position p on
RECURSIVE ExtractTables(_, _, _, _)
ExtractTables(grid, positions, p, st) ==
    IF p > Len(positions) THEN st
    ELSE ExtractTables(grid, positions, p + 1,
                       AddTable(st, positions[p][2],
                                ValuesFrom(grid, 3, positions[p][1], <<>>)))

\* table_name_lower.get(key): the last table of the sheet with that
\* lower-cased name
TableNameLower(sheet_tables, k) ==
    LET at == {i \in 1..Len(sheet_tables) : Lower(sheet_tables[i].name) = k}
    IN  IF at = {} THEN None ELSE Some(sheet_tables[SetMax(at)].name)

\* the loop over the left columns of a sheet, from column c_idx on
RECURSIVE AutoMap(_, _, _, _, _, _)
AutoMap(row0, row1, left_labels, sheet_tables, c_idx, col_map) ==
    IF c_idx > Len(row0) THEN col_map
    ELSE AutoMap(row0, row1, left_labels, sheet_tables, c_idx + 1,
                 IF /\ c_idx \in left_labels
                    /\ TableNameLower(sheet_tables, Lower(Strip(row1[c_idx]))) # None
                    /\ _normalise_property_name(Strip(row0[c_idx])) # ""
                 THEN DictSetDefault(col_map, _normalise_property_name(Strip(row0[c_idx])),
                                     TableNameLower(sheet_tables, Lower(Strip(row1[c_idx])))[1])
                 ELSE col_map)

\* a sheet whose table positions are known
ParsePositions(grid, row0, row1, positions, st) ==
    LET t == ExtractTables(grid, positions, 1,
                           [sheet_tables |-> <<>>, picklist_tables |-> st.picklist_tables])
    IN  [picklist_tables |-> t.picklist_tables,
         col_to_picklist |->
             AutoMap(row0, row1, LeftLabels(row0, row1, positions[1][1]), t.sheet_tables,
                     1, st.col_to_picklist)]

\* one iteration of the loop over the data sheets of a workbook
ParseDataSheet(sh, st) ==
    IF Len(sh.grid) < 2 THEN st
    ELSE LET row0 == [c \in 1..Len(sh.grid[1]) |-> FillNa(sh.grid[1][c])]
             row1 == [c \in 1..Len(sh.grid[2]) |-> FillNa(sh.grid[2][c])]
             positions == TablePositions(row0, row1, 1)
         IN  IF positions = <<>> THEN st
             ELSE ParsePositions(sh.grid, row0, row1, positions, st)

\* the loop over the data sheets, from sheet i on
RECURSIVE ParseDataSheets(_, _, _)
ParseDataSheets(sheets, i, st) ==
    IF i > Len(sheets) THEN st
    ELSE ParseDataSheets(sheets, i + 1, ParseDataSheet(sheets[i], st))

\* os.path.splitext(fname)[1].lower()
ExtOf(f) == Lower(SplitExt(f.name)[2])

parse_picklist_reference(f) ==
    IF ExtOf(f) = ".csv" THEN ParseCsv(f)
    ELSE IF ~f.readable THEN NoReference
    ELSE ParseDataSheets(DataSheets(f), 1, NoReference)

(***************************************************************************)
(* The merge of the parsed reference files in main                         *)
(***************************************************************************)
Codes(values) == {values[i][1] : i \in 1..Len(values)}

\* the pairs of values whose code the table does not hold yet are appended
RECURSIVE AppendNewCodes(_, _, _)
AppendNewCodes(existing, values, i) ==
    IF i > Len(values) THEN existing
    ELSE AppendNewCodes(IF values[i][1] \notin Codes(existing)
                        THEN Append(existing, values[i]) ELSE existing,
                        values, i + 1)

\* one parsed table is merged into the table of its name
MergeTable(merged, pl_name, values) ==
    IF ItemGet(merged, pl_name) = None
    THEN ItemSet(merged, pl_name, values)
    ELSE ItemSet(merged, pl_name, AppendNewCodes(ItemGet(merged, pl_name)[1], values, 1))

\* the loop over tables.items(), from item i on
RECURSIVE MergeTables(_, _, _)
MergeTables(merged, parsed, i) ==
    IF i > Len(parsed) THEN merged
    ELSE MergeTables(MergeTable(merged, parsed[i].name, parsed[i].props), parsed, i + 1)

\* a merge of the mappings in which the later file wins
MergeMappingLastWins(merged, parsed) ==
    [k \in DOMAIN merged \cup DOMAIN parsed |->
        IF k \in DOMAIN parsed THEN parsed[k] ELSE merged[k]]

\* the loop over mapping.items(): setdefault for every key
MergeMapping(merged, parsed) ==
    [k \in DOMAIN merged \cup DOMAIN parsed |->
        IF k \in DOMAIN merged THEN merged[k] ELSE parsed[k]]

(***************************************************************************)
(* Sample reference files                                                  *)
(***************************************************************************)
CsvFile(n, g) == [name |-> n, readable |-> TRUE, grid |-> g, sheets |-> <<>>]
Workbook(n, sh) == [name |-> n, readable |-> TRUE, grid |-> <<>>, sheets |-> sh]
Sheet(n, g) == [name |-> n, grid |-> g]

GenderCsv ==
    CsvFile("Gender.csv",
            << <<"Code", "Label">>, <<"M", "Male">>, <<" F ", "Female">>, <<"M", "Man">> >>)

GenderMoreCsv ==
    CsvFile("Gender.CSV",
            << <<"F", "Fem">>, <<"NA", "Not applicable">>, <<"X", "">>, <<"", "Blank">> >>)

JobSheet ==
    Sheet("Job (Data)",
          << <<"gender", "job-status", "", "Gender", "", "Status", "">>,
             <<"Gender", "Status", "", "Code", "Label", "code", "Label">>,
             <<"M", "A", "", "M", "Male", "A", "Active">>,
             <<"", "", "", "F", "", "", "Unused">> >>)

PersonSheet ==
    Sheet("Person (Data)",
          << <<"Gender", "sex", "Sex", "", "GENDER", "", "Gender", "">>,
             <<"Sex", "gender", "Code", "Label", "Code", "Label", "Code", "Label">>,
             <<"U", "U", "1", "One", "G", "Gee", "U", "Unknown">>,
             <<"", "", "2", "Two", "", "", "M", "Masculine">> >>)

NotesSheet == Sheet("Notes", << <<"Gender">>, <<"Code">>, <<"Z">> >>)

ShortSheet == Sheet("Short (Data)", << <<"Gender", "">> >>)

PlainSheet == Sheet("Plain (Data)", << <<"a", "b">>, <<"A", "B">>, <<"1", "2">> >>)

JobWorkbook == Workbook("job.xlsx", <<JobSheet, NotesSheet, PersonSheet>>)
PersonWorkbook == Workbook("person.xls", <<ShortSheet, PersonSheet, PlainSheet, JobSheet>>)
BrokenWorkbook == [name |-> "broken.xlsx", readable |-> FALSE, grid |-> <<>>, sheets |-> <<>>]
BrokenCsv == [name |-> "broken.csv", readable |-> FALSE, grid |-> <<>>, sheets |-> <<>>]

ReferencePool ==
    {GenderCsv, GenderMoreCsv, JobWorkbook, PersonWorkbook, BrokenWorkbook, BrokenCsv}

MaxRefFiles == 2

(***************************************************************************)
(* Specification of the reference loading: main calls                      *)
(* parse_picklist_reference on every uploaded file in upload order and     *)
(* merges what it returns; the parse of a workbook goes sheet by sheet.    *)
(***************************************************************************)
InitRef ==
    /\ idleRun /\ idleNorm /\ idleClass /\ idleXml /\ idleTmpl /\ idleCfg /\ idleMatch /\ idleLook
    /\ ref_files \in SeqsUpTo(ReferencePool, MaxRefFiles)
    /\ ref_idx = 0 /\ sheet_idx = 0
    /\ tables = <<>> /\ mapping = EmptyDict
    /\ picklist_tables = <<>> /\ col_to_picklist = EmptyDict
    /\ result = None /\ pc = "ref"

notRef == <<normVars, classVars, xmlVars, tmplVars, cfgVars, matchVars, lookVars, runVars,
           result>>

RefFile == ref_files[ref_idx + 1]

\* parse_picklist_reference on a CSV file
ParseCsvReference ==
    /\ pc = "ref" /\ ref_idx < Len(ref_files)
    /\ ExtOf(RefFile) = ".csv"
    /\ \E r \in {ParseCsv(RefFile)} :
          /\ tables' = r.picklist_tables
          /\ mapping' = r.col_to_picklist
    /\ pc' = "parsed"
    /\ UNCHANGED <<ref_files, ref_idx, sheet_idx, picklist_tables, col_to_picklist, notRef>>

\* parse_picklist_reference on a workbook, up to the loop over its data sheets
OpenWorkbook ==
    /\ pc = "ref" /\ ref_idx < Len(ref_files)
    /\ ExtOf(RefFile) # ".csv"
    /\ tables' = <<>> /\ mapping' = EmptyDict /\ sheet_idx' = 0
    /\ pc' = IF RefFile.readable /\ DataSheets(RefFile) # <<>> THEN "sheets" ELSE "parsed"
    /\ UNCHANGED <<ref_files, ref_idx, picklist_tables, col_to_picklist, notRef>>

\* one data sheet of the workbook; after the last one the function returns
ParseSheet ==
    /\ pc = "sheets"
    /\ \E r \in {ParseDataSheet(DataSheets(RefFile)[sheet_idx + 1],
                                [picklist_tables |-> tables, col_to_picklist |-> mapping])} :
          /\ tables' = r.picklist_tables
          /\ mapping' = r.col_to_picklist
    /\ sheet_idx' = sheet_idx + 1
    /\ pc' = IF sheet_idx + 1 = Len(DataSheets(RefFile)) THEN "parsed" ELSE "sheets"
    /\ UNCHANGED <<ref_files, ref_idx, picklist_tables, col_to_picklist, notRef>>

\* the body of main's loop after the parse: tables and mappings are merged
MergeReference ==
    /\ pc = "parsed"
    /\ picklist_tables' = MergeTables(picklist_tables, tables, 1)
    /\ col_to_picklist' = MergeMapping(col_to_picklist, mapping)
    /\ ref_idx' = ref_idx + 1
    /\ pc' = "ref"
    /\ UNCHANGED <<ref_files, sheet_idx, tables, mapping, notRef>>

NextRef ==
    \/ ParseCsvReference
    \/ OpenWorkbook
    \/ ParseSheet
    \/ MergeReference

SpecRef == InitRef /\ [][NextRef]_vars

\* the files main has merged so far
MergedFiles == SubSeq(ref_files, 1, ref_idx)

\* C13: after parsing and merging any sequence of reference sources no
\* picklist table holds the same code in two of its (code, label) pairs.
CodesUniqueInTables ==
    \A t \in 1..Len(picklist_tables) :
        \A i, j \in 1..Len(picklist_tables[t].props) :
            i # j => picklist_tables[t].props[i][1] # picklist_tables[t].props[j][1]

\* the non-blank (code, label) cells of a grid from row r on, as written in
\* the source
RawPairs(grid, r, code_col) ==
    LET rows == {i \in r..Len(grid) : Strip(grid[i][code_col]) # ""}
    IN  {<<i, Strip(grid[i][code_col]),
           IF code_col + 1 <= Len(grid[i]) THEN Strip(grid[i][code_col + 1]) ELSE "">> :
            i \in rows}

\* what a source supplies: triples <<table name, code, label>>
CsvSupplies(f) ==
    IF ~f.readable \/ f.grid = <<>> THEN {}
    ELSE LET start == IF Lower(Strip(f.grid[1][1])) \in CsvHeaderWords THEN 2 ELSE 1
             n == Strip(SplitExt(f.name)[1])
         IN  {<<n, p[2], p[3]>> : p \in RawPairs(f.grid, start, 1)}

SheetSupplies(sh) ==
    IF Len(sh.grid) < 2 THEN {}
    ELSE UNION {{<<Strip(sh.grid[1][c]), p[2], p[3]>> : p \in RawPairs(sh.grid, 3, c)} :
                  c \in {c \in 1..Len(sh.grid[2]) :
                            /\ Lower(Strip(sh.grid[2][c])) = "code"
                            /\ Strip(sh.grid[1][c]) # ""}}

FileSupplies(f) ==
    IF ExtOf(f) = ".csv" THEN CsvSupplies(f)
    ELSE IF ~f.readable THEN {}
    ELSE UNION {SheetSupplies(f.sheets[i]) :
                  i \in {i \in 1..Len(f.sheets) : EndsWith(f.sheets[i].name, "(Data)")}}

\* C14: after every merge the table stored under a name holds every
\* non-blank code that a merged source (a flat file or a workbook sheet)
\* supplied under that name, so no code is ever dropped.
EverySuppliedCodeKept ==
    pc = "ref" =>
        \A n \in 1..Len(MergedFiles) :
            \A sup \in FileSupplies(MergedFiles[n]) :
                /\ ItemGet(picklist_tables, sup[1]) # None
                /\ sup[2] \in Codes(ItemGet(picklist_tables, sup[1])[1])

\* C15: a key that has been mapped to a picklist table keeps that mapping
\* whatever sheet or file is processed next, in the mapping of the file being
\* parsed and in the merged mapping of main.
MappingFirstSourceWins ==
    [][ /\ \A k \in DOMAIN col_to_picklist :
              k \in DOMAIN col_to_picklist' /\ col_to_picklist'[k] = col_to_picklist[k]
        /\ pc = "sheets" =>
              \A k \in DOMAIN mapping : k \in DOMAIN mapping' /\ mapping'[k] = mapping[k]
      ]_vars

MappingFirstSourceWinsWitness ==
    /\ pc = "ref" /\ ref_idx = 2
    /\ \E k \in DOMAIN col_to_picklist :
          /\ k \in DOMAIN parse_picklist_reference(ref_files[1]).col_to_picklist
          /\ k \in DOMAIN parse_picklist_reference(ref_files[2]).col_to_picklist
          /\ parse_picklist_reference(ref_files[2]).col_to_picklist[k] # col_to_picklist[k]

(***************************************************************************)
(* The picklist assignment step of main.  A template is a record of its    *)
(* file name, its header row and its data rows.                            *)
(***************************************************************************)
\* the final type of a column as the candidate finder computes it
CandidateType(col_name, props, glob) ==
    FinalType(_normalise_property_name(col_name),
              IF lookup_property(col_name, props, glob) # None
              THEN friendly_type(lookup_property(col_name, props, glob)[1].type)
              ELSE "")

\* the loop over the columns of template t, from column c on
RECURSIVE CandidateColumns(_, _, _, _, _)
CandidateColumns(t, props, glob, c, st) ==
    IF c > Len(t.property_names) THEN st
    ELSE CandidateColumns(t, props, glob, c + 1,
            LET norm_col == _normalise_property_name(t.property_names[c])
            IN  IF \/ norm_col \in st.seen_norms
                   \/ norm_col \in _IDENTITY_NORMS
                   \/ norm_col = _OPERATION_NORM
                THEN st
                ELSE IF _is_picklist_column(norm_col,
                                            CandidateType(t.property_names[c], props, glob))
                THEN [seen_norms |-> st.seen_norms \cup {norm_col},
                      candidates |-> Append(st.candidates,
                                            <<t.name, t.property_names[c], norm_col>>)]
                ELSE st)

\* the loop over the templates, from template i on; the entity type is
\* matched without a country
RECURSIVE CandidatesFrom(_, _, _, _, _)
CandidatesFrom(tmpls, glob, items, i, st) ==
    IF i > Len(tmpls) THEN st
    ELSE CandidatesFrom(tmpls, glob, items, i + 1,
            CandidateColumns(tmpls[i],
                             EntityPropsOf(items,
                                 find_best_entity_type(tmpls[i].property_names, items, "")),
                             glob, 1, st))

_get_picklist_candidates(tmpls, glob, items) ==
    CandidatesFrom(tmpls, glob, items, 1, [seen_norms |-> {}, candidates |-> <<>>]).candidates

\* the first column of the header row whose key is norm_col, 0 when none
ColumnOf(names, norm_col) ==
    LET at == {i \in 1..Len(names) : _normalise_property_name(names[i]) = norm_col}
    IN  IF at = {} THEN 0 ELSE SetMin(at)

\* the loop over the templates of _gather_template_data_values, from
\* template i on
RECURSIVE GatherFrom(_, _, _, _, _)
GatherFrom(norm_col, tmpls, i, seen, max_values) ==
    IF i > Len(tmpls) \/ Len(seen) >= max_values THEN seen
    ELSE GatherFrom(norm_col, tmpls, i + 1,
                    IF ColumnOf(tmpls[i].property_names, norm_col) = 0 THEN seen
                    ELSE ExtractFrom(ColumnOf(tmpls[i].property_names, norm_col),
                                     tmpls[i].data_rows, 1, seen, max_values),
                    max_values)

PreviewMax == 8

PreviewOf(seen, max_values) ==
    IF Len(seen) >= max_values THEN Join(seen, ", ") \o ", ..." ELSE Join(seen, ", ")

_gather_template_data_values(norm_col, tmpls) ==
    PreviewOf(GatherFrom(norm_col, tmpls, 1, <<>>, PreviewMax), PreviewMax)

\* the non-empty labels of a table, in table order
Labels(values) ==
    LET labelled == SelectSeq(values, LAMBDA v : v[2] # "")
    IN  [i \in 1..Len(labelled) |-> labelled[i][2]]

\* _tmpl_entity_props.get(tmpl_name, {}): the property map of the last
\* template of that name, matched without a country
TmplEntityProps(tmpls, items, tmpl_name) ==
    LET at == {i \in 1..Len(tmpls) : tmpls[i].name = tmpl_name}
    IN  IF at = {} THEN None
        ELSE EntityPropsOf(items,
                 find_best_entity_type(tmpls[SetMax(at)].property_names, items, ""))

\* col_to_picklist.get(norm_col, "") when that table exists, else ""
AutoAssigned(norm_col, tbls, col_map) ==
    IF /\ norm_col \in DOMAIN col_map
       /\ col_map[norm_col] # ""
       /\ ItemGet(tbls, col_map[norm_col]) # None
    THEN col_map[norm_col] ELSE ""

\* the default of the Final Values cell of a candidate
FinalValuesDefault(norm_col, tmpls, tbls, col_map, saved) ==
    IF norm_col \in DOMAIN saved THEN saved[norm_col]
    ELSE IF /\ AutoAssigned(norm_col, tbls, col_map) # ""
            /\ Join(Labels(ItemGet(tbls, AutoAssigned(norm_col, tbls, col_map))[1]), ", ") # ""
    THEN Join(Labels(ItemGet(tbls, AutoAssigned(norm_col, tbls, col_map))[1]), ", ")
    ELSE _gather_template_data_values(norm_col, tmpls)

\* the first five labels of the assigned table
ReferencePreview(values) ==
    Join(Labels(SubSeq(values, 1, IF Len(values) < 5 THEN Len(values) ELSE 5)), ", ")
        \o (IF Len(values) > 5 THEN ", ..." ELSE "")

\* the row of the assignment editor for one candidate
EditorRow(cand, tmpls, glob, items, tbls, col_map, saved) ==
    [Mand |-> LET m == lookup_property(cand[2], TmplEntityProps(tmpls, items, cand[1]), glob)
              IN  IF m # None THEN m[1].required = "true" ELSE FALSE,
     Template |-> cand[1],
     Column |-> cand[2],
     AssignedPicklist |-> AutoAssigned(cand[3], tbls, col_map),
     ReferenceValues |->
         IF AutoAssigned(cand[3], tbls, col_map) # ""
         THEN ReferencePreview(ItemGet(tbls, AutoAssigned(cand[3], tbls, col_map))[1])
         ELSE "",
     TemplateData |-> _gather_template_data_values(cand[3], tmpls),
     FinalValues |-> FinalValuesDefault(cand[3], tmpls, tbls, col_map, saved),
     norm |-> cand[3]]

\* the rows of the editor: none without picklist tables or candidates
EditorRows(tmpls, glob, items, tbls, col_map, saved) ==
    IF tbls = <<>> THEN <<>>
    ELSE LET candidates == _get_picklist_candidates(tmpls, glob, items)
         IN  [i \in 1..Len(candidates) |->
                 EditorRow(candidates[i], tmpls, glob, items, tbls, col_map, saved)]

\* resolved_picklists built from the Final Values column, from row i on
RECURSIVE ResolvedFrom(_, _, _)
ResolvedFrom(rows, i, resolved) ==
    IF i > Len(rows) THEN resolved
    ELSE ResolvedFrom(rows, i + 1,
                      IF Strip(rows[i].FinalValues) # "" /\ Strip(rows[i].norm) # ""
                      THEN DictSet(resolved, Strip(rows[i].norm), Strip(rows[i].FinalValues))
                      ELSE resolved)

\* resolved_picklists if resolved_picklists else None
ResolvedArg(rows) ==
    LET r == ResolvedFrom(rows, 1, EmptyDict)
    IN  IF DOMAIN r = {} THEN None ELSE Some(r)

\* the loop over the reference files of main, from file i on
RECURSIVE LoadFrom(_, _, _)
LoadFrom(files, i, st) ==
    IF i > Len(files) THEN st
    ELSE LoadFrom(files, i + 1,
                  LET r == parse_picklist_reference(files[i])
                  IN  [picklist_tables |-> MergeTables(st.picklist_tables, r.picklist_tables, 1),
                       col_to_picklist |-> MergeMapping(st.col_to_picklist, r.col_to_picklist)])

\* Series.get(col, "") on a row of the frame: the value under a column name
\* that occurs once; a name that occurs more than once yields a Series (none
\* here), whose text is never the column name or the empty string
SeriesGet(names, values, col_name) ==
    LET at == {i \in 1..Len(names) : names[i] = col_name}
    IN  IF Cardinality(at) = 1 THEN Some(values[CHOOSE i \in at : TRUE]) ELSE None

\* the columns of the no-XML-match summary of one result
Unmatched(df) ==
    SelectSeq(df[1].values,
              LAMBDA col_name :
                  /\ SeriesGet(df[1].values, df[2].values, col_name) = Some(col_name)
                  /\ SeriesGet(df[1].values, df[3].values, col_name) = Some(""))

\* one turn of the transformation loop and the summary of its result
ResultOf(t, glob, items, ctry, skip, resolved) ==
    LET r == transform_template(t.property_names, glob, items, ctry, skip, t.data_rows,
                                resolved)
    IN  [name |-> t.name, df |-> r.df, entity_type |-> r.best_et,
         unmatched |-> Unmatched(r.df)]

(***************************************************************************)
(* Sample batches                                                          *)
(***************************************************************************)
EmpEmployment ==
    [Name |-> "EmpEmployment",
     Property |-> << Prop("status", "Edm.String", "true", "", "Status"),
                     Prop("Gender", "Edm.String", "", "1", "") >>]

\* the entity type of the worked example
EmpJobExample ==
    [Name |-> "EmpJob",
     Property |-> << Prop("EmployeeID", "Edm.String", "true", "20", "Employee ID"),
                     Prop("Gender", "SFOData.GenderEnum", "", "", "") >>]

\* two entity types of different countries with the same property under
\* different types
PayStatusUSA ==
    [Name |-> "PayStatusUSA",
     Property |-> << Prop("status", "Edm.String", "true", "", "Status") >>]

PayStatusGBR ==
    [Name |-> "PayStatusGBR",
     Property |-> << Prop("status", "Edm.Int64", "", "", "Status code") >>]

RunSchemas ==
    { <<EmpJob, EmpEmployment>>, <<PerPerson>>, <<EmpJobExample>>,
      <<PayStatusUSA, PayStatusGBR>> }

RunReferences == { <<>>, <<GenderCsv>>, <<JobWorkbook>> }

Template(n, names, rows) == [name |-> n, property_names |-> names, data_rows |-> rows]

TemplateA ==
    Template("A.csv", <<"userId", "Gender">>,
             << <<"u1", "Male">>, <<"u2", "Female">>, <<"u3", "Male">> >>)

TemplateB ==
    Template("B.csv", <<"Gender", "Foo", "Foo">>, << <<"X", "1", "2">> >>)

TemplateC ==
    Template("C.csv", <<"Operation", "Status">>,
             << <<"insert", "s1">>, <<"insert", "s2">>, <<"insert", "s3">>,
                <<"insert", "s4">>, <<"insert", "s5">>, <<"insert", "s6">>,
                <<"insert", "s7">>, <<"insert", "s8">>, <<"insert", "s9">> >>)

\* the template of the worked example
TemplateE ==
    Template("E.csv", <<"Employee-ID", "Gender">>,
             << <<"E1", "Male">>, <<"E2", "Female">>, <<"E3", "Male">> >>)

TemplatePool == {TemplateA, TemplateB, TemplateC, TemplateE}

MaxTemplates == 2

\* the rows of the editor the user may change
MaxEditorRows == 2

SavedAssignments == { EmptyDict, "gender" :> "Saved1, Saved2" }

EditedTexts == { "", " X, Y " }

(***************************************************************************)
(* Specification of a batch run of main: the dictionary is parsed, the     *)
(* reference files are loaded, the assignment editor is filled and may be  *)
(* edited, and the button transforms every template.                       *)
(***************************************************************************)
InitRun ==
    /\ idleNorm /\ idleClass /\ idleMatch /\ idleLook /\ idleTmpl
    /\ xml_file \in RunSchemas
    /\ global_lookup = EmptyDict /\ entity_lookup = <<>>
    /\ ref_files \in RunReferences
    /\ ref_idx = 0 /\ sheet_idx = 0 /\ tables = <<>> /\ mapping = EmptyDict
    /\ picklist_tables = <<>> /\ col_to_picklist = EmptyDict
    /\ templates \in SeqsUpTo(TemplatePool, MaxTemplates) \ {<<>>}
    /\ loaded_config \in SavedAssignments
    /\ editor_rows = <<>> /\ results = <<>>
    /\ country = "GBR" /\ skip_operation = FALSE /\ resolved_picklists = None
    /\ result = None /\ pc = "start"

\* the loop over the uploaded reference files
LoadReferences ==
    /\ pc = "indexed"
    /\ \E r \in {LoadFrom(ref_files, 1, NoReference)} :
          /\ picklist_tables' = r.picklist_tables
          /\ col_to_picklist' = r.col_to_picklist
    /\ ref_idx' = Len(ref_files)
    /\ pc' = "loaded"
    /\ UNCHANGED <<ref_files, sheet_idx, tables, mapping, runVars, normVars, classVars,
                   xmlVars, tmplVars, cfgVars, matchVars, lookVars, result>>

HasOperation ==
    \E i \in 1..Len(templates) :
        _OPERATION_NORM \in NormCols(templates[i].property_names)

\* the operation check and the picklist assignment editor
ReviewAssignments ==
    /\ pc = "loaded"
    /\ \E confirm \in BOOLEAN :
          skip_operation' = IF HasOperation THEN confirm ELSE FALSE
    /\ editor_rows' = EditorRows(templates, global_lookup, entity_lookup, picklist_tables,
                                 col_to_picklist, loaded_config)
    /\ pc' = "review"
    /\ UNCHANGED <<templates, loaded_config, results, country, resolved_picklists,
                   refVars, normVars, classVars, xmlVars, tmplVars, matchVars, lookVars,
                   result>>

\* the user edits the Final Values cell of a row of the editor
EditFinalValues(i, text) ==
    /\ pc = "review"
    /\ i \in 1..Len(editor_rows)
    /\ editor_rows[i].FinalValues # text
    /\ editor_rows' = [editor_rows EXCEPT ![i].FinalValues = text]
    /\ UNCHANGED <<templates, loaded_config, results, cfgVars, refVars, normVars,
                   classVars, xmlVars, tmplVars, matchVars, lookVars, result, pc>>

\* the button: resolved_picklists is built from the editor and every
\* template is transformed, in batch order
GenerateImportTemplates ==
    /\ pc = "review"
    /\ resolved_picklists' = ResolvedArg(editor_rows)
    /\ results' = [i \in 1..Len(templates) |->
                      ResultOf(templates[i], global_lookup, entity_lookup, country,
                               skip_operation, ResolvedArg(editor_rows))]
    /\ pc' = "generated"
    /\ UNCHANGED <<templates, loaded_config, editor_rows, country, skip_operation,
                   refVars, normVars, classVars, xmlVars, tmplVars, matchVars, lookVars,
                   result>>

NextRun ==
    \/ ParseXmlMetadata
    \/ LoadReferences
    \/ ReviewAssignments
    \/ \E i \in 1..MaxEditorRows, text \in EditedTexts : EditFinalValues(i, text)
    \/ GenerateImportTemplates

SpecRun == InitRun /\ [][NextRun]_vars

\* the cells of column j of result t
RunHeader(t, j) == templates[t].property_names[j]
RunKey(t, j) == _normalise_property_name(RunHeader(t, j))
RunLabelCell(t, j) == results[t].df[2].values[j]
RunTypeCell(t, j) == results[t].df[3].values[j]
RunPicklistCell(t, j) == results[t].df[6].values[j]
RunColumns(t) == 1..Len(templates[t].property_names)

\* the rows of the editor the user has changed
EditedRows ==
    {r \in 1..Len(editor_rows) :
        editor_rows[r].FinalValues #
            FinalValuesDefault(editor_rows[r].norm, templates, picklist_tables,
                               col_to_picklist, loaded_config)}

\* what the user has supplied for key k: an edited Final Values cell or a
\* saved assignment of the loaded configuration
UserOverrides(k) ==
    {Strip(editor_rows[r].FinalValues) : r \in {r \in EditedRows : editor_rows[r].norm = k}}
        \cup (IF k \in DOMAIN loaded_config THEN {Strip(loaded_config[k])} ELSE {})

\* the labels of the reference table mapped to key k
MappedLabels(k) ==
    IF AutoAssigned(k, picklist_tables, col_to_picklist) # ""
    THEN {Join(Labels(ItemGet(picklist_tables,
                              AutoAssigned(k, picklist_tables, col_to_picklist))[1]), ", ")}
    ELSE {}

\* C16: in a full run the Picklist Values cell of a picklist column is the
\* user's override, the mapped reference table's labels or the data-row scan
\* of the template capped at 20, never the capped preview string.
PreviewNeverOutput ==
    pc = "generated" =>
        \A t \in 1..Len(results) : \A j \in RunColumns(t) :
            RunTypeCell(t, j) = "picklist" =>
                RunPicklistCell(t, j) \in
                    UserOverrides(RunKey(t, j)) \cup MappedLabels(RunKey(t, j))
                        \cup {_extract_picklist_values(j, templates[t].data_rows)}

\* the editor of a run on template t alone, with the user's edits of the
\* batch run carried over by key
SoloRows(t) ==
    LET rows == EditorRows(<<templates[t]>>, global_lookup, entity_lookup, picklist_tables,
                           col_to_picklist, loaded_config)
    IN  [r \in 1..Len(rows) |->
            IF \E e \in EditedRows : editor_rows[e].norm = rows[r].norm
            THEN [rows[r] EXCEPT !.FinalValues =
                     editor_rows[CHOOSE e \in EditedRows :
                                     editor_rows[e].norm = rows[r].norm].FinalValues]
            ELSE rows[r]]

\* C17: the enriched output of a template of a batch is the output of a run
\* on that template alone with the same schema, picklist indices, flags and
\* user overrides: the other templates of the batch change no cell of it.
TemplatesIndependent ==
    pc = "generated" =>
        \A t \in 1..Len(results) :
            results[t].df =
                transform_template(templates[t].property_names, global_lookup,
                                   entity_lookup, country, skip_operation,
                                   templates[t].data_rows, ResolvedArg(SoloRows(t))).df

\* C18: a column is listed in the no-XML-match summary of a template exactly
\* when it is no identity column and no skipped operation column and the
\* resolver returned none for its header.
UnmatchedIffUnresolved ==
    pc = "generated" =>
        \A t \in 1..Len(results) : \A j \in RunColumns(t) :
            InSeq(RunHeader(t, j), results[t].unmatched)
                <=> /\ RunKey(t, j) \notin {"userid", "personidexternal"}
                    /\ ~(RunKey(t, j) = "operation" /\ skip_operation)
                    /\ lookup_property(RunHeader(t, j),
                                       EntityPropsOf(entity_lookup, results[t].entity_type),
                                       global_lookup) = None

\* C23: with the entity type EmpJob defining EmployeeID (Edm.String, required,
\* label "Employee ID", max length 20) and Gender (SFOData.GenderEnum), the
\* headers Employee-ID and Gender, data rows with Male, Female, Male in the
\* Gender column, no reference file and no override, the Type row is
\* string, picklist and the Picklist Values row is "", "Male, Female".
EndToEndExample ==
    (pc = "generated" /\ xml_file = <<EmpJobExample>> /\ ref_files = <<>>
        /\ resolved_picklists = None) =>
        \A t \in 1..Len(results) :
            templates[t] = TemplateE =>
                /\ results[t].df[3].values = <<"string", "picklist">>
                /\ results[t].df[6].values = <<"", "Male, Female">>

\* the worked example has been run as the second template of a batch
EndToEndExampleWitness ==
    /\ pc = "generated" /\ xml_file = <<EmpJobExample>> /\ ref_files = <<>>
    /\ resolved_picklists = None
    /\ Len(results) = 2 /\ templates[2] = TemplateE
    /\ results[2].entity_type = Some("EmpJob")

\* the entity type the assignment step matches for template t
StepEntityType(t) ==
    find_best_entity_type(templates[t].property_names, entity_lookup, "")

\* C25: when the picklist-assignment step runs, for every template the
\* entity type it matches for the candidates and their mandatory flags is the entity type
\* transform_template matches, so a column offered as a candidate is a
\* picklist column of the output, with the mandatory flag the editor showed.
CandidateEntityIsTransformEntity ==
    (pc = "generated" /\ picklist_tables # <<>>) =>
        /\ \A t \in 1..Len(results) : StepEntityType(t) = results[t].entity_type
        /\ \A r \in 1..Len(editor_rows) : \A t \in 1..Len(results) :
               \A j \in RunColumns(t) :
                   (templates[t].name = editor_rows[r].Template
                        /\ RunHeader(t, j) = editor_rows[r].Column) =>
                       /\ RunTypeCell(t, j) = "picklist"
                       /\ editor_rows[r].Mand <=> results[t].df[4].values[j] = "true"
====
